---- MODULE Spec2Model ----
(***************************************************************************)
(* Verification model of the batch scripts of assetblue-data:              *)
(*   download_urls_data.py, add_cloudflare_storage_links.py,               *)
(*   upload_to_r2.py, add_models_parallel.py, check_pdf_model_match.py.    *)
(* Each script is an independent process; each has its own group of        *)
(* variables and its own specification.  A specification leaves the        *)
(* variables of the other scripts untouched.                               *)
(***************************************************************************)
EXTENDS Integers, Sequences, FiniteSets, TLC

(***************************************************************************)
(* State.  download_urls_data.py is modelled twice: with the items of a    *)
(* batch counted (the concurrency cap and the save cadence depend on the   *)
(* counts alone), and with the URLs named.                                 *)
(***************************************************************************)
VARIABLES
    lenRemaining,   \* len(remaining) in main
    batchStart,     \* main's loop variable i
    lenBatch,       \* len(batch)
    lenTasks,       \* len(tasks) in download_batch
    semaphore,      \* free slots of asyncio.Semaphore(CONCURRENT_DOWNLOADS)
    nStarted,       \* download_url handlers that have issued session.get
    nReturned,      \* download_url handlers that have returned
    nUnsaved,       \* outcomes computed since the last save_progress
    pcBatch         \* position of main / download_batch

batchVars == <<lenRemaining, batchStart, lenBatch, lenTasks, semaphore,
               nStarted, nReturned, nUnsaved, pcBatch>>

VARIABLES
    csv,            \* merged.csv: the rows, each with its raw URL cell and its Model
    progressFile,   \* download_progress.json on disk
    errorFile,      \* download_errors.json on disk
    contentFiles,   \* the paths that exist under downloaded_content
    progress,       \* main's progress dict
    errors,         \* len(errors) of main's errors list
    remaining,      \* main's remaining list
    i,              \* main's loop variable
    handlers,       \* state of each download_url of the current batch
    pc,             \* position of the download process
    saving,         \* the save call in progress: which call, which file, which step
    faults,         \* requests that servers have failed and kills of the process, so far
    httpRequests,   \* session.get calls issued by the current run
    last,           \* the response and the result of the download_url that returned last
    cfCsv           \* merged.csv as add_cloudflare_storage_links read and rewrote it

dlVars == <<csv, progressFile, errorFile, contentFiles, progress, errors, remaining,
            i, handlers, pc, saving, faults, httpRequests, last, cfCsv>>

VARIABLES
    upFiles,        \* the files under DOWNLOADED_DIR when upload_to_r2 runs
    forceReupload,  \* FORCE_REUPLOAD, from the environment
    upProgressFile, \* r2_upload_progress.json on disk
    upErrorFile,    \* r2_upload_errors.json on disk, as the length of its list
    bucket,         \* the keys stored in the R2 bucket
    upProgress,     \* main's progress dict
    upErrors,       \* len(errors) of main's errors list
    futures,        \* future_to_file: s3 key -> state of its upload_file call
    completed,      \* main's counter of the as_completed loop
    upPc,           \* position of upload_to_r2.main
    headBucketCalls,    \* head_bucket calls made by the current run
    uploadCalls,    \* upload_fileobj calls made by the current run
    upFaults        \* uploads that the object store has failed so far

upVars == <<upFiles, forceReupload, upProgressFile, upErrorFile, bucket, upProgress,
            upErrors, futures, completed, upPc, headBucketCalls, uploadCalls, upFaults>>

VARIABLES
    inputCsv,       \* "Asset Subtypes Parallel.csv": the Asset Name of each row
    outputFile,     \* "Asset Subtypes Parallel Models.csv" on disk
    tasks,          \* asset -> state of its process_asset task
    output_rows,    \* tracker.output_rows
    total_processed,    \* tracker.total_processed
    rows_since_save,    \* tracker.rows_since_save
    lock,           \* tracker.lock: the task that holds it, or "free"
    rows_copy,      \* rows_copy of the _flush_locked call in progress
    mPc             \* position of add_models_parallel.main

mVars == <<inputCsv, outputFile, tasks, output_rows, total_processed, rows_since_save,
           lock, rows_copy, mPc>>

VARIABLES
    ckFile,         \* the CSV that check_pdf_model_match reads and rewrites
    ckStart,        \* the CSV as it was when the current run of process_csv began
    df,             \* process_csv's DataFrame, one record per row
    ckFutures,      \* future_to_row: row index -> state of its process_single_row
    results,        \* row index -> the index and the arguments its process_single_row returned for
    written,        \* row index -> how often the loop has set the row's Model_Related
    processed_count,    \* process_csv's counter
    fetched,        \* the rows whose URL the current run has fetched
    ckPc            \* position of process_csv

ckVars == <<ckFile, ckStart, df, ckFutures, results, written, processed_count, fetched, ckPc>>

\* upload_to_r2.py is modelled a second time with the completed uploads counted
\* (the save cadence depends on the counts alone).
VARIABLES
    cntRemaining,   \* len(remaining_files) in upload_to_r2.main
    cntCompleted,   \* main's counter completed
    cntUnsaved,     \* outcomes put into progress since the last save_progress
    cntPc           \* position of main

cntVars == <<cntRemaining, cntCompleted, cntUnsaved, cntPc>>

\* The functions without state of their own (fetch_models' cleaning of the
\* service's answer, sanitize_filename, check_model_in_content, ...) are each
\* called once on an input.
VARIABLES
    fnInput,        \* the arguments of the call
    fnOutput,       \* what the call returned
    fnPc            \* "idle", "called" or "returned"

fnVars == <<fnInput, fnOutput, fnPc>>

\* The variables of the other scripts, for each script
notBatch == <<fnVars, dlVars, upVars, mVars, ckVars, cntVars>>
notDl == <<fnVars, batchVars, upVars, mVars, ckVars, cntVars>>
notUp == <<fnVars, batchVars, dlVars, mVars, ckVars, cntVars>>
notM == <<fnVars, batchVars, dlVars, upVars, ckVars, cntVars>>
notCk == <<fnVars, batchVars, dlVars, upVars, mVars, cntVars>>
notCnt == <<fnVars, batchVars, dlVars, upVars, mVars, ckVars>>
notFn == <<batchVars, dlVars, upVars, mVars, ckVars, cntVars>>

(***************************************************************************)
(* Part 1.  download_urls_data.py: main's batch loop and download_batch,   *)
(* with the items of a batch counted.                                      *)
(***************************************************************************)
CONCURRENT_DOWNLOADS == 20
SAVE_INTERVAL == 50
batch_size == 100
ConnectorLimit == 100

\* Largest number of URLs left to download that a run of the counting model starts with.
MaxUrls == 101

Min(a, b) == IF a < b THEN a ELSE b

\* remaining[i:i + batch_size], as a length
BatchLenAt(start, n) == Min(batch_size, n - start)

\* batch_num and total_batches of main
BatchNum(start) == (start \div batch_size) + 1
TotalBatches(n) == ((n - 1) \div batch_size) + 1

\* main, line 412: the periodic-save condition evaluated after a batch
SaveDue(start, blen, n) ==
    \/ (start + blen) % SAVE_INTERVAL = 0
    \/ BatchNum(start) = TotalBatches(n)

\* The number of download_url handlers with an HTTP request in flight.
InFlight == nStarted - nReturned

BatchInit ==
    /\ lenRemaining \in 1..MaxUrls
    /\ batchStart = 0
    /\ lenBatch = BatchLenAt(0, lenRemaining)
    /\ lenTasks = 0
    /\ semaphore = CONCURRENT_DOWNLOADS
    /\ nStarted = 0
    /\ nReturned = 0
    /\ nUnsaved = 0
    /\ pcBatch = "submit"

BatchIdle ==
    /\ lenRemaining = 0
    /\ batchStart = 0
    /\ lenBatch = 0
    /\ lenTasks = 0
    /\ semaphore = 0
    /\ nStarted = 0
    /\ nReturned = 0
    /\ nUnsaved = 0
    /\ pcBatch = "idle"

\* download_batch, line 287: "async with semaphore" entered for the next url_data
SemAcquire ==
    /\ pcBatch = "submit"
    /\ lenTasks < lenBatch
    /\ semaphore > 0
    /\ semaphore' = semaphore - 1
    /\ pcBatch' = "holding"
    /\ UNCHANGED notBatch
    /\ UNCHANGED <<lenRemaining, batchStart, lenBatch, lenTasks, nStarted, nReturned, nUnsaved>>

\* lines 288-297: the coroutine object is created and appended to tasks; it does
\* not run.  The loop then sleeps REQUEST_DELAY with the semaphore held.
CreateCoroutine ==
    /\ pcBatch = "holding"
    /\ lenTasks' = lenTasks + 1
    /\ pcBatch' = "sleeping"
    /\ UNCHANGED notBatch
    /\ UNCHANGED <<lenRemaining, batchStart, lenBatch, semaphore, nStarted, nReturned, nUnsaved>>

\* end of the "async with" block: the semaphore is released after the sleep
SemRelease ==
    /\ pcBatch = "sleeping"
    /\ semaphore' = semaphore + 1
    /\ pcBatch' = "submit"
    /\ UNCHANGED notBatch
    /\ UNCHANGED <<lenRemaining, batchStart, lenBatch, lenTasks, nStarted, nReturned, nUnsaved>>

\* line 299: asyncio.gather schedules every coroutine of tasks
Gather ==
    /\ pcBatch = "submit"
    /\ lenTasks = lenBatch
    /\ pcBatch' = "gather"
    /\ UNCHANGED notBatch
    /\ UNCHANGED <<lenRemaining, batchStart, lenBatch, lenTasks, semaphore, nStarted, nReturned, nUnsaved>>

\* A scheduled download_url runs up to its session.get (line 173); the only cap on
\* it is the connector's limit of line 281.
HandlerRequest ==
    /\ pcBatch = "gather"
    /\ nStarted < lenTasks
    /\ InFlight < ConnectorLimit
    /\ nStarted' = nStarted + 1
    /\ UNCHANGED notBatch
    /\ UNCHANGED <<lenRemaining, batchStart, lenBatch, lenTasks, semaphore, nReturned, nUnsaved, pcBatch>>

\* A download_url with a request in flight returns its result.
HandlerReturn ==
    /\ pcBatch = "gather"
    /\ InFlight > 0
    /\ nReturned' = nReturned + 1
    /\ nUnsaved' = nUnsaved + 1
    /\ UNCHANGED notBatch
    /\ UNCHANGED <<lenRemaining, batchStart, lenBatch, lenTasks, semaphore, nStarted, pcBatch>>

\* main, lines 386-415 and the loop header 377-378: gather has returned; the
\* progress is saved when SaveDue, and the loop goes to the next batch or ends.
BatchEnd ==
    /\ pcBatch = "gather"
    /\ nReturned = lenBatch
    /\ nUnsaved' = IF SaveDue(batchStart, lenBatch, lenRemaining) THEN 0 ELSE nUnsaved
    /\ batchStart' = batchStart + batch_size
    /\ IF batchStart + batch_size < lenRemaining
       THEN /\ lenBatch' = BatchLenAt(batchStart + batch_size, lenRemaining)
            /\ pcBatch' = "submit"
       ELSE /\ lenBatch' = 0
            /\ pcBatch' = "final"
    /\ lenTasks' = 0
    /\ nStarted' = 0
    /\ nReturned' = 0
    /\ UNCHANGED notBatch
    /\ UNCHANGED <<lenRemaining, semaphore>>

\* main, lines 419-421: the final save
FinalSave ==
    /\ pcBatch = "final"
    /\ nUnsaved' = 0
    /\ pcBatch' = "done"
    /\ UNCHANGED notBatch
    /\ UNCHANGED <<lenRemaining, batchStart, lenBatch, lenTasks, semaphore, nStarted, nReturned>>

BatchNext ==
    \/ SemAcquire
    \/ CreateCoroutine
    \/ SemRelease
    \/ Gather
    \/ HandlerRequest
    \/ HandlerReturn
    \/ BatchEnd
    \/ FinalSave

(***************************************************************************)
(* Part 2.  download_urls_data.py with the URLs named: read_urls_from_csv,  *)
(* main, download_batch, download_url, save_progress, save_errors, and the  *)
(* files they read and write.                                               *)
(***************************************************************************)
MAX_FILE_SIZE == 100 * 1024 * 1024

\* Largest number of rows of merged.csv.
MaxRows == 2
\* Largest number of faults in one behaviour: requests that a server fails (an
\* error status, an oversize body, a timeout) and kills of the download
\* process.  Every other request is answered with a document of an allowed size.
MaxFaults == 2

None == <<>>
NoPath == <<>>
Space == " "

\* The raw URL cells of the model's CSV files.  A cell is a sequence of atoms, an
\* atom being a blank or a run of non-blank characters.
UrlCells == { <<"http://x/a.pdf">>, <<Space, "http://x/a.pdf">>, <<"http://y/page">>, <<"n/a">> }
Models == {"X1"}
Rows == [URL : UrlCells, Model : Models]

RECURSIVE lstrip(_)
lstrip(s) == IF s # <<>> /\ Head(s) = Space THEN lstrip(Tail(s)) ELSE s
RECURSIVE rstrip(_)
rstrip(s) == IF s # <<>> /\ s[Len(s)] = Space THEN rstrip(SubSeq(s, 1, Len(s) - 1)) ELSE s
\* str.strip()
strip(s) == rstrip(lstrip(s))

\* url.startswith(('http://', 'https://'))
StartsWithHttp(url) == url # <<>> /\ Head(url) \in {"http://x/a.pdf", "http://y/page"}

\* hashlib.md5(url.encode()).hexdigest(), and its first 8 characters
md5(url) == <<"md5", url>>
md5_8(url) == <<"md5[:8]", url>>

RECURSIVE SelectRows(_)
\* read_urls_from_csv: the rows whose stripped URL is an http(s) URL, in file order
SelectRows(rows) ==
    IF rows = <<>> THEN <<>>
    ELSE LET row == Head(rows)
             url == strip(row.URL)
         IN  (IF StartsWithHttp(url) THEN << [url |-> url, row_data |-> row] >> ELSE <<>>)
             \o SelectRows(Tail(rows))

read_urls_from_csv == SelectRows(csv)

\* Files on disk.  st is "absent", "complete", or "truncated": opened with mode
\* 'w', which cuts the file to length 0, and not yet closed, so that it holds
\* nothing or a proper prefix of the new text.
AbsentFile == [st |-> "absent", data |-> <<>>]
TruncatedFile == [st |-> "truncated", data |-> <<>>]
CompleteFile(d) == [st |-> "complete", data |-> d]

\* load_progress / load_errors: the parsed file, or the empty value when the file
\* is missing or json.load raises
load_progress == IF progressFile.st = "complete" THEN progressFile.data ELSE <<>>
\* The entries of the error log are appended, written back and never looked at:
\* the log is modelled by its length.
load_errors == IF errorFile.st = "complete" THEN errorFile.data ELSE 0

\* main without line 337's filter: nothing counts as downloaded
NothingDownloaded(prog) == {}

\* main, line 337
downloaded_ids(prog) == {pid \in DOMAIN prog : prog[pid].status = "success"}

RECURSIVE FilterRemaining(_, _)
\* main, lines 340-341
FilterRemaining(urls_data, ids) ==
    IF urls_data = <<>> THEN <<>>
    ELSE (IF md5(Head(urls_data).url) \notin ids THEN <<Head(urls_data)>> ELSE <<>>)
         \o FilterRemaining(Tail(urls_data), ids)

\* batch = remaining[i:i + batch_size]; batch positions are 1-based here
BatchOf(rem, start) == SubSeq(rem, start + 1, Min(Len(rem), start + batch_size))

\* The responses a server can give, and the two exceptions of the request.
\* content_length -1 is a response without a Content-Length header.
Response(status, content_type, content_length, body) ==
    [kind |-> "response", status |-> status, content_type |-> content_type,
     content_length |-> content_length, body |-> body]
Responses ==
    { Response(200, "application/pdf", -1, 2048),
      Response(200, "text/html", MAX_FILE_SIZE, MAX_FILE_SIZE),
      Response(404, "text/html", -1, 2048),
      Response(404, "application/pdf", MAX_FILE_SIZE + 1, MAX_FILE_SIZE + 1),
      Response(200, "application/pdf", MAX_FILE_SIZE + 1, MAX_FILE_SIZE + 1),
      Response(200, "application/pdf", -1, MAX_FILE_SIZE + 1),
      [kind |-> "timeout", status |-> 0, content_type |-> "", content_length |-> -1, body |-> 0],
      [kind |-> "client_error", status |-> 0, content_type |-> "", content_length |-> -1, body |-> 0] }

\* "word in content_type" for the content types of the model
CtHas(ct, word) ==
    CASE ct = "application/pdf" -> word \in {"pdf", "application"}
      [] ct = "text/html" -> word \in {"html", "text", "text/html"}
      [] ct = "image/png" -> word \in {"image", "png"}
      [] ct = "image/jpeg" -> word \in {"image", "jpeg"}
      [] ct = "application/msword" -> word \in {"msword", "application"}
      [] ct = "text/plain" -> word \in {"text", "plain"}
      [] ct = "application/octet-stream" -> word \in {"application", "octet-stream"}
      [] OTHER -> FALSE

PDF_EXTENSIONS == {".pdf"}
IMAGE_EXTENSIONS == {".jpg", ".jpeg", ".png", ".gif", ".webp", ".svg", ".bmp", ".tiff", ".ico"}
DOC_EXTENSIONS == {".doc", ".docx", ".xls", ".xlsx", ".ppt", ".pptx"}

\* os.path.splitext(unquote(urlparse(url).path))[1].lower() for the URLs of the model
UrlPathExt(url) ==
    CASE url = <<"http://x/a.pdf">> -> ".pdf"
      [] url = <<"http://x/b.JPG">> -> ".jpg"
      [] url = <<"http://x/c.png">> -> ".png"
      [] url = <<"http://x/d.doc">> -> ".doc"
      [] url = <<"http://x/e.xlsx">> -> ".xlsx"
      [] url = <<"http://x/f.html">> -> ".html"
      [] url = <<"http://x/g.zip">> -> ".zip"
      [] OTHER -> ""

get_file_extension(url, content_type) ==
    IF UrlPathExt(url) # "" THEN UrlPathExt(url)
    ELSE IF CtHas(content_type, "pdf") THEN ".pdf"
    ELSE IF CtHas(content_type, "html") \/ CtHas(content_type, "text/html") THEN ".html"
    ELSE IF CtHas(content_type, "jpeg") \/ CtHas(content_type, "jpg") THEN ".jpg"
    ELSE IF CtHas(content_type, "png") THEN ".png"
    ELSE IF CtHas(content_type, "gif") THEN ".gif"
    ELSE IF CtHas(content_type, "json") THEN ".json"
    ELSE IF CtHas(content_type, "xml") THEN ".xml"
    ELSE IF CtHas(content_type, "text") THEN ".txt"
    ELSE ".bin"

\* download_url choosing the directory by the extension of the URL, and by the
\* content type only for an extension of no class
SaveDirByExtension(ext, content_type) ==
    IF ext \in PDF_EXTENSIONS THEN "pdfs"
    ELSE IF ext \in IMAGE_EXTENSIONS THEN "images"
    ELSE IF ext \in DOC_EXTENSIONS THEN "documents"
    ELSE IF ext = ".html" THEN "html"
    ELSE IF CtHas(content_type, "pdf") THEN "pdfs"
    ELSE IF CtHas(content_type, "image") THEN "images"
    ELSE IF CtHas(content_type, "msword") \/ CtHas(content_type, "spreadsheet")
            \/ CtHas(content_type, "presentation") THEN "documents"
    ELSE IF CtHas(content_type, "html") THEN "html"
    ELSE "other"

\* download_url, lines 205-214
SaveDir(ext, content_type) ==
    IF ext \in PDF_EXTENSIONS \/ CtHas(content_type, "pdf") THEN "pdfs"
    ELSE IF ext \in IMAGE_EXTENSIONS \/ CtHas(content_type, "image") THEN "images"
    ELSE IF ext \in DOC_EXTENSIONS \/ CtHas(content_type, "msword")
            \/ CtHas(content_type, "spreadsheet") \/ CtHas(content_type, "presentation")
         THEN "documents"
    ELSE IF ext = ".html" \/ CtHas(content_type, "html") THEN "html"
    ELSE "other"

\* A path under downloaded_content: <dir>/<base>_<hash>[_<dup>][_text]<ext>
Path(dir, base, hash, dup, text, ext) ==
    [dir |-> dir, base |-> base, hash |-> hash, dup |-> dup, text |-> text, ext |-> ext]

\* generate_filename, as a path in save_dir; the base name comes from the row
generate_filename(dir, url, row_data, content_type) ==
    Path(dir, IF row_data.Model # "" THEN row_data.Model ELSE "download",
         md5_8(url), 0, FALSE, get_file_extension(url, content_type))

\* download_url writing under the generated name whatever exists (lines 223-227
\* left out)
GeneratedPath(original_path, counter, files) ==
    [original_path EXCEPT !.dup = counter]

RECURSIVE FreePath(_, _, _)
\* download_url, lines 223-228: the first of name, name_1, name_2, ... that does
\* not exist
FreePath(original_path, counter, files) ==
    LET file_path == [original_path EXCEPT !.dup = counter]
    IN  IF file_path \in files THEN FreePath(original_path, counter + 1, files)
        ELSE file_path

\* A result dict of download_url
Result(url, status, file_path, text_path, content_type, error, file_size) ==
    [url |-> url, url_id |-> md5(url), status |-> status, file_path |-> file_path,
     text_path |-> text_path, content_type |-> content_type, error |-> error,
     file_size |-> file_size]



NoLast == [url |-> <<>>, resp |-> [kind |-> "none"], result |-> [status |-> "none"],
           wrote |-> {}, recorded |-> FALSE]
NotSaving == [site |-> "none", file |-> "none", step |-> "none"]

DlInit ==
    /\ csv \in UNION { [1..n -> Rows] : n \in 1..MaxRows }
    /\ progressFile = AbsentFile
    /\ errorFile = AbsentFile
    /\ contentFiles = {}
    /\ progress = <<>>
    /\ errors = 0
    /\ remaining = <<>>
    /\ i = 0
    /\ handlers = <<>>
    /\ pc = "start"
    /\ saving = NotSaving
    /\ faults = 0
    /\ httpRequests = 0
    /\ last = NoLast
    /\ cfCsv = [st |-> "unread", cfcol |-> "", rows |-> <<>>]

\* The process has ended: its memory is gone.
ProcessGone ==
    /\ progress' = <<>>
    /\ errors' = 0
    /\ remaining' = <<>>
    /\ i' = 0
    /\ handlers' = <<>>
    /\ saving' = NotSaving
    /\ last' = NoLast

\* main, lines 327-352: the script is started (again); it reads the CSV, loads
\* the two files and returns at once when nothing remains.
MainStart ==
    /\ pc \in {"start", "done", "crashed"}
    /\ cfCsv.st = "unread"
    /\ LET rem == FilterRemaining(read_urls_from_csv, downloaded_ids(load_progress))
       IN  IF rem = <<>>
           THEN /\ pc' = "done"
                /\ ProcessGone
           ELSE /\ pc' = "batch"
                /\ progress' = load_progress
                /\ errors' = load_errors
                /\ remaining' = rem
                /\ i' = 0
                /\ handlers' = <<>>
                /\ saving' = NotSaving
                /\ last' = NoLast
    /\ httpRequests' = 0
    /\ UNCHANGED notDl
    /\ UNCHANGED <<csv, progressFile, errorFile, contentFiles, faults, cfCsv>>

\* download_url, lines 154-158: the skip test a handler makes when it starts
AlreadyDownloaded(url, prog) ==
    md5(url) \in DOMAIN prog /\ prog[md5(url)].status = "success"

\* download_batch, lines 284-299, up to the first suspension of every handler:
\* the loop creates one coroutine per item (the semaphore it takes and releases
\* around each creation holds nothing back, see Part 1), gather schedules them
\* all, and each runs to its session.get unless it skips.
StartBatch ==
    /\ pc = "batch"
    /\ LET batch == BatchOf(remaining, i)
       IN  /\ handlers' = [j \in 1..Len(batch) |->
                             IF AlreadyDownloaded(batch[j].url, progress)
                             THEN "returned" ELSE "requested"]
           /\ httpRequests' = httpRequests
                + Cardinality({j \in 1..Len(batch) : ~AlreadyDownloaded(batch[j].url, progress)})
    /\ pc' = "gather"
    /\ UNCHANGED notDl
    /\ UNCHANGED <<csv, progressFile, errorFile, contentFiles, progress, errors, remaining,
                   i, saving, faults, last, cfCsv>>

\* download_url, lines 185-186: the Content-Length header is present and over the cap
DeclaredTooLarge(resp) ==
    resp.content_length # -1 /\ resp.content_length > MAX_FILE_SIZE

\* download_url without its second size check (lines 196-200 left out)
ActualNeverTooLarge(resp) == FALSE

\* download_url, lines 193 and 196: the body that was read is over the cap
ActualTooLarge(resp) ==
    resp.body > MAX_FILE_SIZE

\* download_url, lines 160-270, from the response (or the exception) on:
\* what is written, what the result is, and whether the result is recorded in
\* progress (line 268) or the function has returned before.
Outcome(url, row_data, resp, files) ==
    LET ct == resp.content_type
        ext == get_file_extension(url, ct)
        save_dir == SaveDir(ext, ct)
        file_path == FreePath(generate_filename(save_dir, url, row_data, ct), 0, files)
        is_html == ext = ".html" \/ CtHas(ct, "html")
        text_path == [file_path EXCEPT !.text = TRUE, !.ext = ".txt"]
    IN  IF resp.kind = "timeout"
        THEN [result |-> Result(url, "error", NoPath, NoPath, "", <<"Request timeout">>, 0),
              wrote |-> {}, logged |-> TRUE, recorded |-> TRUE]
        ELSE IF resp.kind = "client_error"
        THEN [result |-> Result(url, "error", NoPath, NoPath, "", <<"Client error">>, 0),
              wrote |-> {}, logged |-> TRUE, recorded |-> TRUE]
        ELSE IF resp.status # 200
        THEN [result |-> Result(url, "error", NoPath, NoPath, "", <<"HTTP", resp.status>>, 0),
              wrote |-> {}, logged |-> TRUE, recorded |-> FALSE]
        ELSE IF DeclaredTooLarge(resp)
        THEN [result |-> Result(url, "error", NoPath, NoPath, ct,
                                <<"File too large", resp.content_length>>, 0),
              wrote |-> {}, logged |-> TRUE, recorded |-> FALSE]
        ELSE IF ActualTooLarge(resp)
        THEN [result |-> Result(url, "error", NoPath, NoPath, ct,
                                <<"File too large", resp.body>>, 0),
              wrote |-> {}, logged |-> TRUE, recorded |-> FALSE]
        ELSE [result |-> Result(url, "success", file_path,
                                IF is_html THEN text_path ELSE NoPath, ct, None, resp.body),
              wrote |-> {file_path} \cup (IF is_html THEN {text_path} ELSE {}),
              logged |-> FALSE, recorded |-> TRUE]

\* The requests that do not end with a document
Failed(resp) ==
    \/ resp.kind # "response"
    \/ resp.status # 200
    \/ resp.content_length > MAX_FILE_SIZE
    \/ resp.body > MAX_FILE_SIZE

\* What the server of a URL sends when it serves the request: a PDF under the
\* .pdf address, a page of exactly the largest allowed size under the other.
Document(url) ==
    IF url = <<"http://x/a.pdf">>
    THEN Response(200, "application/pdf", -1, 2048)
    ELSE Response(200, "text/html", MAX_FILE_SIZE, MAX_FILE_SIZE)

\* The download_url of batch item j gets its response and runs to its return.
Complete(j, resp) ==
    /\ pc = "gather"
    /\ j \in DOMAIN handlers
    /\ handlers[j] = "requested"
    /\ IF Failed(resp) THEN faults < MaxFaults
                       ELSE resp = Document(BatchOf(remaining, i)[j].url)
    /\ faults' = IF Failed(resp) THEN faults + 1 ELSE faults
    /\ LET item == BatchOf(remaining, i)[j]
           out == Outcome(item.url, item.row_data, resp, contentFiles)
       IN  /\ contentFiles' = contentFiles \cup out.wrote
           /\ errors' = IF out.logged THEN errors + 1 ELSE errors
           /\ progress' = IF out.recorded
                          THEN (md5(item.url) :> out.result) @@ progress
                          ELSE progress
           /\ last' = [url |-> item.url, resp |-> resp, result |-> out.result,
                       wrote |-> out.wrote, recorded |-> out.recorded]
    /\ handlers' = [handlers EXCEPT ![j] = "returned"]
    /\ UNCHANGED notDl
    /\ UNCHANGED <<csv, progressFile, errorFile, remaining, i, pc, saving,
                   httpRequests, cfCsv>>

\* main's "for i in range(0, len(remaining), batch_size)": the next batch, or
\* the final save after the loop (lines 419-421)
AfterBatch(start) ==
    IF start + batch_size < Len(remaining)
    THEN [pc |-> "batch", i |-> start + batch_size, saving |-> NotSaving]
    ELSE [pc |-> "save", i |-> start,
          saving |-> [site |-> "final", file |-> "progress", step |-> "open"]]

\* main, lines 385-415: gather has returned every result; the periodic save is
\* made when it is due.
EndBatch ==
    /\ pc = "gather"
    /\ \A j \in DOMAIN handlers : handlers[j] = "returned"
    /\ IF SaveDue(i, Len(BatchOf(remaining, i)), Len(remaining))
       THEN /\ pc' = "save"
            /\ saving' = [site |-> "batch", file |-> "progress", step |-> "open"]
            /\ i' = i
       ELSE /\ pc' = AfterBatch(i).pc
            /\ saving' = AfterBatch(i).saving
            /\ i' = AfterBatch(i).i
    /\ handlers' = <<>>
    /\ last' = NoLast
    /\ UNCHANGED notDl
    /\ UNCHANGED <<csv, progressFile, errorFile, contentFiles, progress, errors, remaining,
                   faults, httpRequests, cfCsv>>

\* save_progress / save_errors, open(..., 'w'): the file is cut to length 0
SaveOpen ==
    /\ pc = "save"
    /\ saving.step = "open"
    /\ IF saving.file = "progress"
       THEN progressFile' = TruncatedFile /\ UNCHANGED errorFile
       ELSE errorFile' = TruncatedFile /\ UNCHANGED progressFile
    /\ saving' = [saving EXCEPT !.step = "dump"]
    /\ UNCHANGED notDl
    /\ UNCHANGED <<csv, contentFiles, progress, errors, remaining, i, handlers, pc, faults,
                   httpRequests, last, cfCsv>>

\* json.dump has finished and the file is closed: the file holds the new text.
\* save_errors follows save_progress; after save_errors main goes on.
SaveClose ==
    /\ pc = "save"
    /\ saving.step = "dump"
    /\ IF saving.file = "progress"
       THEN /\ progressFile' = CompleteFile(progress)
            /\ saving' = [saving EXCEPT !.file = "errors", !.step = "open"]
            /\ UNCHANGED <<errorFile, pc, i, progress, errors, remaining, handlers, last>>
       ELSE /\ errorFile' = CompleteFile(errors)
            /\ UNCHANGED progressFile
            /\ IF saving.site = "batch"
               THEN /\ pc' = AfterBatch(i).pc
                    /\ saving' = AfterBatch(i).saving
                    /\ i' = AfterBatch(i).i
                    /\ UNCHANGED <<progress, errors, remaining, handlers, last>>
               ELSE /\ pc' = "done"
                    /\ ProcessGone
    /\ UNCHANGED notDl
    /\ UNCHANGED <<csv, contentFiles, faults, httpRequests, cfCsv>>

\* The process is killed (or the machine stops) while the run is under way.
Crash ==
    /\ pc \in {"batch", "gather", "save"}
    /\ faults < MaxFaults
    /\ faults' = faults + 1
    /\ pc' = "crashed"
    /\ ProcessGone
    /\ UNCHANGED notDl
    /\ httpRequests' = 0
    /\ UNCHANGED <<csv, progressFile, errorFile, contentFiles, cfCsv>>

(***************************************************************************)
(* Part 3.  add_cloudflare_storage_links.py, run on merged.csv after the   *)
(* download.                                                                *)
(***************************************************************************)
CLOUDFLARE_BASE_URL == "https://4c9e60a2dc0dcf475cc907f3cd645f1d.r2.cloudflarestorage.com/boiler-asset"

\* The Status cells of the model's CSV files, and (cell or "").strip().lower()
StatusCells == {"Downloaded ", "failed"}
StatusValue(cell) == IF cell = "Downloaded " THEN "downloaded" ELSE cell

\* How the header of the CSV spells the cloudflare column; "" when it has none
CfColumns == {"", "cloudflare_storage", "Cloudflare_Storage"}
LowerName(name) == IF name = "Cloudflare_Storage" THEN "cloudflare_storage" ELSE name

\* load_url_to_cloudflare, lines 33-45: the entries that give a mapping
Mappable(data) ==
    {id \in DOMAIN data : /\ data[id].status = "success"
                          /\ strip(data[id].url) # <<>>
                          /\ data[id].file_path # NoPath}

\* lines 47-60: file_path is relative to downloaded_content already, so the key
\* is file_path itself, appended to the base URL
CloudflareUrl(file_path) == <<CLOUDFLARE_BASE_URL, file_path>>

\* load_url_to_cloudflare: URL -> Cloudflare object URL, from the progress file
load_url_to_cloudflare(data) ==
    [url \in {strip(data[id].url) : id \in Mappable(data)} |->
        CloudflareUrl(data[CHOOSE id \in Mappable(data) : strip(data[id].url) = url].file_path)]

\* process_csv looking the raw URL cell up, without line 94's strip
RowCloudflareRawCell(url_cell, status_cell, url_map) ==
    IF StatusValue(status_cell) = "downloaded" /\ url_cell \in DOMAIN url_map
    THEN url_map[url_cell]
    ELSE <<>>

\* process_csv, lines 92-106: the cloudflare_storage value of one row
RowCloudflare(url_cell, status_cell, url_map) ==
    IF StatusValue(status_cell) = "downloaded" /\ strip(url_cell) \in DOMAIN url_map
    THEN url_map[strip(url_cell)]
    ELSE <<>>

\* csv.DictWriter raises ValueError on a row with a key that is no field name:
\* every row has the key "cloudflare_storage", and the field names have it
\* unless the header spells the column otherwise.
WriteRaises(cfcol) == cfcol # "" /\ cfcol # "cloudflare_storage"

\* main of add_cloudflare_storage_links for merged.csv.  cfcol and statuses are
\* the header's cloudflare column and the rows' Status cells as they stand when
\* the script runs; the download never reads or writes them.
AddCloudflareLinks(cfcol, statuses) ==
    /\ pc = "done"
    /\ cfCsv.st = "unread"
    /\ csv # <<>>
    /\ DOMAIN statuses = DOMAIN csv
    /\ IF progressFile.st = "absent"
       THEN cfCsv' = [st |-> "FileNotFoundError", cfcol |-> cfcol, rows |-> <<>>] /\ UNCHANGED csv
       ELSE IF progressFile.st # "complete"
       THEN cfCsv' = [st |-> "JSONDecodeError", cfcol |-> cfcol, rows |-> <<>>] /\ UNCHANGED csv
       ELSE IF WriteRaises(cfcol)
       THEN cfCsv' = [st |-> "ValueError", cfcol |-> cfcol, rows |-> <<>>] /\ csv' = <<>>
       ELSE /\ cfCsv' = [st |-> "written", cfcol |-> "cloudflare_storage",
                         rows |-> [r \in DOMAIN csv |->
                                    [Status |-> statuses[r],
                                     cloudflare_storage |->
                                        RowCloudflare(csv[r].URL, statuses[r],
                                                      load_url_to_cloudflare(progressFile.data))]]]
            /\ UNCHANGED csv
    /\ UNCHANGED notDl
    /\ UNCHANGED <<progressFile, errorFile, contentFiles, progress, errors, remaining,
                   i, handlers, pc, saving, faults, httpRequests, last>>

DlIdle ==
    /\ csv = <<>>
    /\ progressFile = AbsentFile
    /\ errorFile = AbsentFile
    /\ contentFiles = {}
    /\ progress = <<>>
    /\ errors = 0
    /\ remaining = <<>>
    /\ i = 0
    /\ handlers = <<>>
    /\ pc = "idle"
    /\ saving = NotSaving
    /\ faults = 0
    /\ httpRequests = 0
    /\ last = NoLast
    /\ cfCsv = [st |-> "unread", cfcol |-> "", rows |-> <<>>]

DlNext ==
    \/ MainStart
    \/ StartBatch
    \/ \E j \in 1..MaxRows, resp \in Responses : Complete(j, resp)
    \/ EndBatch
    \/ SaveOpen
    \/ SaveClose
    \/ Crash
    \/ \E cfcol \in CfColumns, statuses \in UNION { [1..n -> StatusCells] : n \in 1..MaxRows } :
          AddCloudflareLinks(cfcol, statuses)

(***************************************************************************)
(* Part 4.  upload_to_r2.py: main and its thread pool.                     *)
(***************************************************************************)
MAX_WORKERS == 10
R2_SAVE_INTERVAL == 50

\* Largest number of files under DOWNLOADED_DIR.
MaxFiles == 3

\* The files that can lie under DOWNLOADED_DIR, as paths relative to it with the
\* platform's separator; one of them is outside the five scanned subdirectories.
FilePaths ==
    << <<"pdfs", "\\", "a.pdf">>, <<"misc", "\\", "c.bin">>, <<"html", "\\", "b.html">>,
       <<"html", "\\", "b.txt">>, <<"other", "\\", "d.bin">> >>

\* get_all_files: the files of the scanned subdirectories
ScannedDirs == {"pdfs", "html", "images", "documents", "other"}
get_all_files == {f \in upFiles : f[1] \in ScannedDirs}

\* generate_s3_key: the relative path with forward slashes
generate_s3_key(file_path) ==
    [n \in 1..Len(file_path) |-> IF file_path[n] = "\\" THEN "/" ELSE file_path[n]]

\* load_progress / load_errors of upload_to_r2
up_load_progress == IF upProgressFile.st = "complete" THEN upProgressFile.data ELSE <<>>
up_load_errors == IF upErrorFile.st = "complete" THEN upErrorFile.data ELSE 0

\* main without line 244's record of what is uploaded
NoUploadedKeys(prog) == {}

\* main, line 244
uploaded_keys(prog) ==
    {prog[k].s3_key : k \in {id \in DOMAIN prog : prog[id].status = "success"}}

\* main without its filter: every file is submitted
AllFilesRemain(all_files, prog) == all_files

\* main, lines 245-253
remaining_files(all_files, prog) ==
    IF forceReupload THEN all_files
    ELSE {f \in all_files : generate_s3_key(f) \notin uploaded_keys(prog)}

\* The file of a key of future_to_file
FileOf(s3_key) == CHOOSE f \in get_all_files : generate_s3_key(f) = s3_key

\* upload_file's result dict
UploadResult(s3_key, status, error) ==
    [file_path |-> FileOf(s3_key), s3_key |-> s3_key, status |-> status, error |-> error]

UpInit ==
    /\ upFiles \in SUBSET {FilePaths[n] : n \in 1..MaxFiles}
    /\ forceReupload \in BOOLEAN
    /\ upProgressFile = AbsentFile
    /\ upErrorFile = AbsentFile
    /\ bucket = {}
    /\ upProgress = <<>>
    /\ upErrors = 0
    /\ futures = <<>>
    /\ completed = 0
    /\ upPc = "start"
    /\ headBucketCalls = 0
    /\ uploadCalls = 0
    /\ upFaults = 0

UpIdle ==
    /\ upFiles = {}
    /\ forceReupload = FALSE
    /\ upProgressFile = AbsentFile
    /\ upErrorFile = AbsentFile
    /\ bucket = {}
    /\ upProgress = <<>>
    /\ upErrors = 0
    /\ futures = <<>>
    /\ completed = 0
    /\ upPc = "idle"
    /\ headBucketCalls = 0
    /\ uploadCalls = 0
    /\ upFaults = 0

\* main has returned: its memory is gone
UpProcessGone ==
    /\ upProgress' = <<>>
    /\ upErrors' = 0
    /\ futures' = <<>>
    /\ completed' = 0

\* main, lines 194-283: the script is started (again).  It returns when a
\* credential is empty (lines 200-209); it asks the object store for the bucket
\* (head_bucket, line 220) and returns when that fails; it scans the files,
\* loads the two files, returns when nothing remains, and submits one
\* upload_file per remaining file otherwise.
UpMainStart(credentials, reachable) ==
    /\ upPc \in {"start", "no_credentials", "no_bucket", "all_uploaded", "done"}
    /\ headBucketCalls' = IF credentials THEN 1 ELSE 0
    /\ uploadCalls' = 0
    /\ IF ~credentials
       THEN upPc' = "no_credentials" /\ UpProcessGone
       ELSE IF ~reachable
       THEN upPc' = "no_bucket" /\ UpProcessGone
       ELSE LET rem == remaining_files(get_all_files, up_load_progress)
            IN  IF rem = {}
                THEN upPc' = "all_uploaded" /\ UpProcessGone
                ELSE /\ upPc' = "pool"
                     /\ upProgress' = up_load_progress
                     /\ upErrors' = up_load_errors
                     /\ futures' = [k \in {generate_s3_key(f) : f \in rem} |-> "queued"]
                     /\ completed' = 0
    /\ UNCHANGED notUp
    /\ UNCHANGED <<upFiles, forceReupload, upProgressFile, upErrorFile, bucket, upFaults>>

\* A worker thread of the pool takes a queued upload_file and calls upload_fileobj.
WorkerStart(k) ==
    /\ upPc = "pool"
    /\ k \in DOMAIN futures
    /\ futures[k] = "queued"
    /\ Cardinality({q \in DOMAIN futures : futures[q] = "running"}) < MAX_WORKERS
    /\ futures' = [futures EXCEPT ![k] = "running"]
    /\ uploadCalls' = uploadCalls + 1
    /\ UNCHANGED notUp
    /\ UNCHANGED <<upFiles, forceReupload, upProgressFile, upErrorFile, bucket, upProgress,
                   upErrors, completed, upPc, headBucketCalls, upFaults>>

\* The ways an upload_file call ends: with a 'success' result, with an 'error'
\* result (upload_fileobj raised, lines 126-136), or by raising itself
\* (file_path.stat() of line 104 is outside the try).
UploadEnds == {"success", "error", "raised"}

\* upload_file, lines 98-136
WorkerFinish(k, end) ==
    /\ upPc = "pool"
    /\ k \in DOMAIN futures
    /\ futures[k] = "running"
    /\ end # "success" => upFaults < MaxFaults
    /\ upFaults' = IF end = "success" THEN upFaults ELSE upFaults + 1
    /\ bucket' = IF end = "success" THEN bucket \cup {k} ELSE bucket
    /\ futures' = [futures EXCEPT ![k] = end]
    /\ UNCHANGED notUp
    /\ UNCHANGED <<upFiles, forceReupload, upProgressFile, upErrorFile, upProgress,
                   upErrors, completed, upPc, headBucketCalls, uploadCalls>>

\* main, lines 286-319: one turn of the as_completed loop.  The periodic save is
\* inside the try, after future.result(): a call that raised is recorded by the
\* except branch, which saves nothing.
Collect(k) ==
    /\ upPc = "pool"
    /\ k \in DOMAIN futures
    /\ futures[k] \in UploadEnds
    /\ LET result == UploadResult(k, IF futures[k] = "success" THEN "success" ELSE "error",
                                  CASE futures[k] = "success" -> None
                                    [] futures[k] = "error" -> <<"AWS Error">>
                                    [] OTHER -> <<"Exception">>)
           newProgress == (k :> result) @@ upProgress
           newErrors == IF futures[k] = "success" THEN upErrors ELSE upErrors + 1
       IN  /\ upProgress' = newProgress
           /\ upErrors' = newErrors
           /\ IF /\ futures[k] # "raised"
                 /\ \/ (completed + 1) % R2_SAVE_INTERVAL = 0
                    \/ completed + 1 = Cardinality(DOMAIN futures)
              THEN /\ upProgressFile' = CompleteFile(newProgress)
                   /\ upErrorFile' = CompleteFile(newErrors)
              ELSE UNCHANGED <<upProgressFile, upErrorFile>>
    /\ completed' = completed + 1
    /\ futures' = [futures EXCEPT ![k] = "collected"]
    /\ UNCHANGED notUp
    /\ UNCHANGED <<upFiles, forceReupload, bucket, upPc, headBucketCalls, uploadCalls, upFaults>>

\* main, lines 323-325: the final save, after the pool has shut down
UpFinalSave ==
    /\ upPc = "pool"
    /\ \A k \in DOMAIN futures : futures[k] = "collected"
    /\ upProgressFile' = CompleteFile(upProgress)
    /\ upErrorFile' = CompleteFile(upErrors)
    /\ upPc' = "done"
    /\ UpProcessGone
    /\ UNCHANGED notUp
    /\ UNCHANGED <<upFiles, forceReupload, bucket, headBucketCalls, uploadCalls, upFaults>>

UpNext ==
    \/ \E credentials, reachable \in BOOLEAN : UpMainStart(credentials, reachable)
    \/ \E k \in DOMAIN futures : WorkerStart(k)
    \/ \E k \in DOMAIN futures, end \in UploadEnds : WorkerFinish(k, end)
    \/ \E k \in DOMAIN futures : Collect(k)
    \/ UpFinalSave

(***************************************************************************)
(* Part 4b.  upload_to_r2.py: the as_completed loop of main with the        *)
(* completed uploads counted.                                               *)
(***************************************************************************)
\* Largest number of files that a run of the counting model uploads.
MaxUploads == 51

CntInit ==
    /\ cntRemaining \in 1..MaxUploads
    /\ cntCompleted = 0
    /\ cntUnsaved = 0
    /\ cntPc = "pool"

CntIdle ==
    /\ cntRemaining = 0
    /\ cntCompleted = 0
    /\ cntUnsaved = 0
    /\ cntPc = "idle"

\* main, line 304: the periodic-save condition
UpSaveDue(n, total) == n % R2_SAVE_INTERVAL = 0 \/ n = total

\* main, lines 286-319: one turn of the as_completed loop for an upload_file
\* call that ended as `end`.  The outcome is put into progress in the try
\* (line 292) and in the except branch (line 317) alike; the save of lines
\* 304-306 is in the try, so a call that raised saves nothing.
CntCollect(end) ==
    /\ cntPc = "pool"
    /\ cntCompleted < cntRemaining
    /\ cntCompleted' = cntCompleted + 1
    /\ cntUnsaved' = IF end # "raised" /\ UpSaveDue(cntCompleted + 1, cntRemaining)
                     THEN 0 ELSE cntUnsaved + 1
    /\ UNCHANGED notCnt
    /\ UNCHANGED <<cntRemaining, cntPc>>

\* main, lines 323-325: the final save
CntFinalSave ==
    /\ cntPc = "pool"
    /\ cntCompleted = cntRemaining
    /\ cntUnsaved' = 0
    /\ cntPc' = "done"
    /\ UNCHANGED notCnt
    /\ UNCHANGED <<cntRemaining, cntCompleted>>

CntNext ==
    \/ \E end \in UploadEnds : CntCollect(end)
    \/ CntFinalSave

(***************************************************************************)
(* Part 5.  add_models_parallel.py: load_rows, main, process_asset, the    *)
(* ProgressTracker and save_models.                                        *)
(***************************************************************************)
MODELS_SAVE_INTERVAL == 50

\* The input CSVs of the model have up to MaxFewRows rows, or from
\* MODELS_SAVE_INTERVAL to MaxManyRows rows (enough for an interval flush).
MaxFewRows == 3
MaxManyRows == 51

\* Asset Name cells: two assets, and the empty cell of an incomplete row.  The
\* first and the last row of a CSV are any of these, but at most one is a row
\* of asset "B"; the rows between them are rows of asset "A".
AssetCells == {"A", "B", ""}
MkCsv(n, firstCell, lastCell) ==
    [k \in 1..n |-> IF k = n THEN lastCell ELSE IF k = 1 THEN firstCell ELSE "A"]
InputCsvs ==
    { MkCsv(sh[1], sh[2], sh[3]) :
        sh \in { t \in ((1..MaxFewRows) \cup (MODELS_SAVE_INTERVAL..MaxManyRows))
                         \X AssetCells \X AssetCells : t[2] # "B" \/ t[3] # "B" } }

\* What fetch_models can return for a row: the completion service knows no model
\* of asset "A", and up to two of asset "B".
ModelLists(asset) ==
    IF asset = "B" THEN {<<>>, <<"M1">>, <<"M1", "M2">>} ELSE {<<>>}

\* load_rows, lines 107-124: the rows with an asset, numbered in the order read;
\* line is the row's place in the file, seq (_seq) its number among the rows kept
load_rows ==
    LET kept == SelectSeq([line \in DOMAIN inputCsv |->
                              [Asset |-> inputCsv[line], line |-> line]],
                          LAMBDA c : c.Asset # "")
    IN  [k \in DOMAIN kept |->
            [Asset |-> kept[k].Asset, line |-> kept[k].line, seq |-> k - 1]]

\* rows_by_asset[asset]
RowsOf(asset) == SelectSeq(load_rows, LAMBDA r : r.Asset = asset)
Assets == {load_rows[k].Asset : k \in DOMAIN load_rows}

\* _build_result_rows, lines 178-203
RECURSIVE EntriesFrom(_, _, _)
EntriesFrom(row, models, idx) ==
    IF models = <<>> THEN <<>>
    ELSE << [Asset |-> row.Asset, line |-> row.line, Model |-> Head(models),
             seq |-> row.seq, model_idx |-> idx] >>
         \o EntriesFrom(row, Tail(models), idx + 1)

\* _build_result_rows without the row of a model-less input row (lines 180-190
\* left out)
ModelRowsOnly(row, models) == EntriesFrom(row, models, 0)

build_result_rows(row, models) ==
    IF models = <<>>
    THEN << [Asset |-> row.Asset, line |-> row.line, Model |-> "",
             seq |-> row.seq, model_idx |-> 0] >>
    ELSE EntriesFrom(row, models, 0)

\* The sort key of save_models, line 135, and the order of two keys
KeyLeq(r1, r2) ==
    \/ r1.seq < r2.seq
    \/ r1.seq = r2.seq /\ r1.model_idx <= r2.model_idx

\* Two ordered lists merged; of two rows with equal keys the one of left comes first
RECURSIVE MergeRows(_, _)
MergeRows(left, right) ==
    IF left = <<>> THEN right
    ELSE IF right = <<>> THEN left
    ELSE IF KeyLeq(Head(left), Head(right))
         THEN <<Head(left)>> \o MergeRows(Tail(left), right)
         ELSE <<Head(right)>> \o MergeRows(left, Tail(right))

\* A stable sort by the key: the two halves are sorted (and bound to left and
\* right), then merged
RECURSIVE SortRows(_)
SortRows(rows) ==
    IF Len(rows) <= 1 THEN rows
    ELSE CHOOSE sorted \in
            { MergeRows(left, right) :
                left \in {SortRows(SubSeq(rows, 1, Len(rows) \div 2))},
                right \in {SortRows(SubSeq(rows, Len(rows) \div 2 + 1, Len(rows)))} } : TRUE

\* save_models writing the rows in the order they were recorded
UnsortedRows(rows) == rows

\* sorted(rows_with_models, key=...), line 135: a stable sort
ordered_rows(rows) == SortRows(rows)

\* save_models, lines 131-145: the file it leaves.  The rows of the file keep
\* their _seq and _model_idx here, which the script strips from what it writes.
save_models(rows_with_models, file) ==
    IF rows_with_models = <<>> THEN file
    ELSE [st |-> "written", rows |-> ordered_rows(rows_with_models)]

NoTask == [pos |-> 0, pc |-> "done", models |-> <<>>, raised |-> FALSE]

MInit ==
    /\ inputCsv \in InputCsvs
    /\ outputFile = [st |-> "absent", rows |-> <<>>]
    /\ tasks = <<>>
    /\ output_rows = <<>>
    /\ total_processed = 0
    /\ rows_since_save = 0
    /\ lock = "free"
    /\ rows_copy = <<>>
    /\ mPc = "start"

MIdle ==
    /\ inputCsv = <<>>
    /\ outputFile = [st |-> "absent", rows |-> <<>>]
    /\ tasks = <<>>
    /\ output_rows = <<>>
    /\ total_processed = 0
    /\ rows_since_save = 0
    /\ lock = "free"
    /\ rows_copy = <<>>
    /\ mPc = "idle"

\* main, lines 233-250: the rows are loaded; with no row main returns, otherwise
\* one task per asset is created and each runs to its first fetch_models
ModelsMainStart ==
    /\ mPc = "start"
    /\ IF load_rows = <<>>
       THEN /\ mPc' = "done"
            /\ UNCHANGED tasks
       ELSE /\ mPc' = "gather"
            /\ tasks' = [a \in Assets |-> [pos |-> 1, pc |-> "fetch", models |-> <<>>,
                                            raised |-> FALSE]]
    /\ UNCHANGED notM
    /\ UNCHANGED <<inputCsv, outputFile, output_rows, total_processed, rows_since_save,
                   lock, rows_copy>>

\* process_asset without its except branches: an error of fetch_models ends the task
FetchAborts(a, models, raised) ==
    /\ mPc = "gather"
    /\ a \in DOMAIN tasks
    /\ tasks[a].pc = "fetch"
    /\ tasks' = [tasks EXCEPT ![a] = [@ EXCEPT !.pc = IF raised THEN "aborted" ELSE "record",
                                                !.models = IF raised THEN <<>> ELSE models,
                                                !.raised = raised]]
    /\ UNCHANGED notM
    /\ UNCHANGED <<inputCsv, outputFile, output_rows, total_processed, rows_since_save,
                   lock, rows_copy, mPc>>

\* process_asset, lines 211-225: fetch_models returns the models, or raises and
\* the row gets the empty list.  The task's field raised says how its latest
\* fetch_models call ended (the message of line 214 or 217 was printed).
FetchReturn(a, models, raised) ==
    /\ mPc = "gather"
    /\ a \in DOMAIN tasks
    /\ tasks[a].pc = "fetch"
    /\ tasks' = [tasks EXCEPT ![a] = [@ EXCEPT !.pc = "record",
                                                !.models = IF raised THEN <<>> ELSE models,
                                                !.raised = raised]]
    /\ UNCHANGED notM
    /\ UNCHANGED <<inputCsv, outputFile, output_rows, total_processed, rows_since_save,
                   lock, rows_copy, mPc>>

\* process_asset after record_results has returned: the next row, or the end
NextRow(a) ==
    IF tasks[a].pos < Len(RowsOf(a))
    THEN [pos |-> tasks[a].pos + 1, pc |-> "fetch", models |-> <<>>,
          raised |-> tasks[a].raised]
    ELSE [pos |-> tasks[a].pos, pc |-> "done", models |-> <<>>, raised |-> tasks[a].raised]

\* record_results without 'async with self.lock': the task does not wait for
\* the lock
RecordUnlocked(a) ==
    /\ mPc = "gather"
    /\ a \in DOMAIN tasks
    /\ tasks[a].pc = "record"
    /\ LET row == RowsOf(a)[tasks[a].pos]
           rows == build_result_rows(row, tasks[a].models)
       IN  /\ output_rows' = output_rows \o rows
           /\ total_processed' = total_processed + 1
           /\ rows_since_save' = rows_since_save + 1
           /\ IF rows_since_save + 1 >= MODELS_SAVE_INTERVAL /\ lock = "free"
              THEN /\ rows_copy' = output_rows \o rows
                   /\ lock' = a
                   /\ tasks' = [tasks EXCEPT ![a] = [@ EXCEPT !.pc = "flush"]]
              ELSE /\ UNCHANGED <<rows_copy, lock>>
                   /\ tasks' = [tasks EXCEPT ![a] = NextRow(a)]
    /\ UNCHANGED notM
    /\ UNCHANGED <<inputCsv, outputFile, mPc>>

\* ProgressTracker.record_results, lines 155-161, with the lock free: the rows
\* are appended and counted; when the interval is reached _flush_locked copies
\* the rows and hands them to save_models in a thread, the lock still held
RecordResults(a) ==
    /\ mPc = "gather"
    /\ a \in DOMAIN tasks
    /\ tasks[a].pc = "record"
    /\ lock = "free"
    /\ LET row == RowsOf(a)[tasks[a].pos]
           rows == build_result_rows(row, tasks[a].models)
       IN  /\ output_rows' = output_rows \o rows
           /\ total_processed' = total_processed + 1
           /\ IF rows_since_save + 1 >= MODELS_SAVE_INTERVAL
              THEN /\ rows_since_save' = rows_since_save + 1
                   /\ rows_copy' = output_rows \o rows
                   /\ lock' = a
                   /\ tasks' = [tasks EXCEPT ![a] = [@ EXCEPT !.pc = "flush"]]
              ELSE /\ rows_since_save' = rows_since_save + 1
                   /\ UNCHANGED <<rows_copy, lock>>
                   /\ tasks' = [tasks EXCEPT ![a] = NextRow(a)]
    /\ UNCHANGED notM
    /\ UNCHANGED <<inputCsv, outputFile, mPc>>

\* _flush_locked, lines 173-175, reason "interval": save_models has written the
\* file; the counter is reset and the lock released
FlushInterval(a) ==
    /\ mPc = "gather"
    /\ a \in DOMAIN tasks
    /\ tasks[a].pc = "flush"
    /\ outputFile' = save_models(rows_copy, outputFile)
    /\ rows_since_save' = 0
    /\ rows_copy' = <<>>
    /\ lock' = "free"
    /\ tasks' = [tasks EXCEPT ![a] = NextRow(a)]
    /\ UNCHANGED notM
    /\ UNCHANGED <<inputCsv, output_rows, total_processed, mPc>>

\* main, line 252: every task is done; finalize flushes with force
Finalize ==
    /\ mPc = "gather"
    /\ \A a \in DOMAIN tasks : tasks[a].pc = "done"
    /\ outputFile' = save_models(output_rows, outputFile)
    /\ rows_since_save' = 0
    /\ mPc' = "done"
    /\ UNCHANGED notM
    /\ UNCHANGED <<inputCsv, tasks, output_rows, total_processed, lock, rows_copy>>

MNext ==
    \/ ModelsMainStart
    \/ \E a \in DOMAIN tasks, raised \in BOOLEAN :
          \E models \in ModelLists(a) : FetchReturn(a, models, raised)
    \/ \E a \in DOMAIN tasks : RecordResults(a)
    \/ \E a \in DOMAIN tasks : FlushInterval(a)
    \/ Finalize

(***************************************************************************)
(* Part 6.  check_pdf_model_match.py: process_csv and its thread pool.     *)
(***************************************************************************)
num_threads == 5
save_interval == 50

\* Largest number of rows of the CSV that process_csv is given.
MaxCheckRows == 2

\* The cells of the model's CSVs.  A row has no URL at all, an original URL
\* only, or both; its Model_Related cell is empty, blank, or an earlier verdict.
UrlColumns == { [URL |-> "", Cloudflare_Storage |-> ""],
                [URL |-> "http://x/a.pdf", Cloudflare_Storage |-> ""],
                [URL |-> "http://x/a.pdf", Cloudflare_Storage |-> "https://r2/pdfs/a.pdf"] }
ModelRelatedCells == {"", " ", "Yes", "Error: HTTP 404"}
CheckRows ==
    { [URL |-> u.URL, Cloudflare_Storage |-> u.Cloudflare_Storage, Model |-> "X1",
       Model_Related |-> m] : u \in UrlColumns, m \in ModelRelatedCells }

\* What process_single_row can return as Model_Related
Verdicts == {"Yes", "No", "Error: Could not extract text"}

\* pandas: the missing value, which read_csv gives for an empty cell and to_csv
\* writes as an empty cell (no cell of the model's CSVs holds this text)
NaN == "NaN"
ReadCell(cell) == IF cell = "" THEN NaN ELSE cell
WriteCell(value) == IF value = NaN THEN "" ELSE value

\* pd.read_csv, and lines 297-298: a CSV without the column gets it, filled with ''
ReadRow(row, hasColumn) ==
    [URL |-> ReadCell(row.URL), Cloudflare_Storage |-> ReadCell(row.Cloudflare_Storage),
     Model |-> row.Model,
     Model_Related |-> IF hasColumn THEN ReadCell(row.Model_Related) ELSE ""]
read_csv(file) == [idx \in DOMAIN file.rows |-> ReadRow(file.rows[idx], file.hasColumn)]

\* df.to_csv
to_csv(frame) ==
    [hasColumn |-> TRUE,
     rows |-> [idx \in DOMAIN frame |->
                 [URL |-> WriteCell(frame[idx].URL),
                  Cloudflare_Storage |-> WriteCell(frame[idx].Cloudflare_Storage),
                  Model |-> frame[idx].Model,
                  Model_Related |-> WriteCell(frame[idx].Model_Related)]]]

\* lines 301-305: the row has a Cloudflare_Storage or a URL value
HasUrl(r) ==
    \/ r.Cloudflare_Storage # NaN /\ r.Cloudflare_Storage # ""
    \/ r.URL # NaN /\ r.URL # ""

\* process_csv without its resume filter: no row counts as processed
NeverProcessed(value) == FALSE

\* processed_mask, lines 310-314, for one value of the column
Processed(value) ==
    /\ value # NaN
    /\ value # ""
    /\ value # " "

\* The .str accessor of line 313 raises AttributeError on a column without any
\* string: a column that read_csv found empty in every row
StrAccessorRaises(frame) ==
    /\ frame # <<>>
    /\ \A idx \in DOMAIN frame : frame[idx].Model_Related = NaN

\* rows_to_process.head(max_rows), lines 327-329; max_rows 0 stands for None
HeadRows(S, max_rows) ==
    IF max_rows = 0 THEN S
    ELSE {idx \in S : Cardinality({j \in S : j < idx}) < max_rows}

\* The result of a process_single_row that has not returned
NoResult == [idx_result |-> 0, args |-> <<>>]

\* rows_data, lines 366-379: the arguments of process_single_row for row idx
RowData(frame, idx) ==
    [idx |-> idx,
     model |-> frame[idx].Model,
     url |-> IF frame[idx].Cloudflare_Storage # NaN /\ frame[idx].Cloudflare_Storage # ""
             THEN frame[idx].Cloudflare_Storage ELSE frame[idx].URL]

\* process_single_row returning the smallest scheduled index, whatever its row
FirstIndex(idx) == CHOOSE j \in DOMAIN ckFutures : \A k \in DOMAIN ckFutures : j <= k

\* process_single_row, lines 238, 255, 260, 266: the index of the returned pair
ResultIndex(idx) == idx

CkInit ==
    /\ ckFile \in { f \in [hasColumn : BOOLEAN,
                            rows : UNION { [1..n -> CheckRows] : n \in 1..MaxCheckRows }] :
                      f.hasColumn \/ \A idx \in DOMAIN f.rows : f.rows[idx].Model_Related = "" }
    /\ ckStart = ckFile
    /\ df = <<>>
    /\ ckFutures = <<>>
    /\ results = <<>>
    /\ written = <<>>
    /\ processed_count = 0
    /\ fetched = {}
    /\ ckPc = "start"

CkIdle ==
    /\ ckFile = [hasColumn |-> FALSE, rows |-> <<>>]
    /\ ckStart = ckFile
    /\ df = <<>>
    /\ ckFutures = <<>>
    /\ results = <<>>
    /\ written = <<>>
    /\ processed_count = 0
    /\ fetched = {}
    /\ ckPc = "idle"

\* process_csv has ended: its memory is gone
CkProcessGone ==
    /\ df' = <<>>
    /\ ckFutures' = <<>>
    /\ results' = <<>>
    /\ written' = <<>>
    /\ processed_count' = 0

\* process_csv, lines 272-411: the script is started (again) with max_rows.  It
\* reads the CSV, splits the rows with a URL into processed and pending, returns
\* when rows are processed and none is pending, and submits one
\* process_single_row per pending row otherwise.
CheckStart(max_rows) ==
    /\ ckPc \in {"start", "AttributeError", "returned", "done"}
    /\ ckStart' = ckFile
    /\ fetched' = {}
    /\ LET frame == read_csv(ckFile)
           all_rows_with_urls == {idx \in DOMAIN frame : HasUrl(frame[idx])}
           already_processed ==
               {idx \in all_rows_with_urls : Processed(frame[idx].Model_Related)}
           rows_to_process ==
               HeadRows(all_rows_with_urls \ already_processed, max_rows)
       IN  IF StrAccessorRaises(frame)
           THEN ckPc' = "AttributeError" /\ CkProcessGone
           ELSE IF already_processed # {} /\ rows_to_process = {}
           THEN ckPc' = "returned" /\ CkProcessGone
           ELSE /\ ckPc' = "pool"
                /\ df' = frame
                /\ ckFutures' = [idx \in rows_to_process |-> "queued"]
                /\ results' = [idx \in rows_to_process |-> NoResult]
                /\ written' = [idx \in rows_to_process |-> 0]
                /\ processed_count' = 0
    /\ UNCHANGED notCk
    /\ UNCHANGED ckFile

\* A worker thread takes a queued process_single_row, which fetches the row's URL
\* (extract_text_from_url, line 234).
CheckWorkerStart(idx) ==
    /\ ckPc = "pool"
    /\ idx \in DOMAIN ckFutures
    /\ ckFutures[idx] = "queued"
    /\ Cardinality({j \in DOMAIN ckFutures : ckFutures[j] = "running"}) < num_threads
    /\ ckFutures' = [ckFutures EXCEPT ![idx] = "running"]
    /\ fetched' = fetched \cup {idx}
    /\ UNCHANGED notCk
    /\ UNCHANGED <<ckFile, ckStart, df, results, written, processed_count, ckPc>>

\* process_single_row, lines 236-270, returns its verdict, with the index it
\* was given
CheckWorkerFinish(idx, verdict) ==
    /\ ckPc = "pool"
    /\ idx \in DOMAIN ckFutures
    /\ ckFutures[idx] = "running"
    /\ ckFutures' = [ckFutures EXCEPT ![idx] = verdict]
    /\ results' = [results EXCEPT ![idx] = [idx_result |-> ResultIndex(idx),
                                            args |-> RowData(df, idx)]]
    /\ UNCHANGED notCk
    /\ UNCHANGED <<ckFile, ckStart, df, written, processed_count, fetched, ckPc>>

\* One turn of the as_completed loop, lines 413-419, with update_progress, lines
\* 388-402: the verdict is put into the row, and the table is saved at the interval
UpdateProgress(idx) ==
    /\ ckPc = "pool"
    /\ idx \in DOMAIN ckFutures
    /\ ckFutures[idx] \in Verdicts
    /\ LET idx_result == results[idx].idx_result
           frame == [df EXCEPT ![idx_result] = [@ EXCEPT !.Model_Related = ckFutures[idx]]]
       IN  /\ df' = frame
           /\ written' = [written EXCEPT ![idx_result] = @ + 1]
           /\ ckFile' = IF (processed_count + 1) % save_interval = 0
                         THEN to_csv(frame) ELSE ckFile
    /\ processed_count' = processed_count + 1
    /\ ckFutures' = [ckFutures EXCEPT ![idx] = "collected"]
    /\ UNCHANGED notCk
    /\ UNCHANGED <<ckStart, results, fetched, ckPc>>

\* lines 427-433: the pool has shut down; the table is saved
CheckFinalSave ==
    /\ ckPc = "pool"
    /\ \A idx \in DOMAIN ckFutures : ckFutures[idx] = "collected"
    /\ ckFile' = to_csv(df)
    /\ ckPc' = "done"
    /\ CkProcessGone
    /\ UNCHANGED notCk
    /\ UNCHANGED <<ckStart, fetched>>

CkNext ==
    \/ \E max_rows \in {0, 1} : CheckStart(max_rows)
    \/ \E idx \in DOMAIN ckFutures : CheckWorkerStart(idx)
    \/ \E idx \in DOMAIN ckFutures, verdict \in Verdicts : CheckWorkerFinish(idx, verdict)
    \/ \E idx \in DOMAIN ckFutures : UpdateProgress(idx)
    \/ CheckFinalSave

(***************************************************************************)
(* Part 7.  add_models_parallel.py: fetch_models, from the service's answer *)
(* to the returned list (lines 83-99).                                      *)
(***************************************************************************)
MAX_MODELS == 6

\* The lists of the model are a head of up to MaxHeadModels entries of any kind,
\* then up to MaxTailModels different plain model names, then possibly one of
\* the names again in another letter case.
MaxHeadModels == 2
MaxTailModels == 6

FnIdle ==
    /\ fnInput = <<>>
    /\ fnOutput = <<>>
    /\ fnPc = "idle"

\* A string is a sequence of atoms, an atom being a blank, a word or a single
\* character.  The words and characters of the model, each with its str.upper()
\* and its str.lower():
Words ==
    { <<"NONE", "NONE", "none">>, <<"none", "NONE", "none">>, <<"None", "NONE", "none">>,
      <<"M1", "M1", "m1">>, <<"m1", "M1", "m1">>, <<"M2", "M2", "m2">>,
      <<"M3", "M3", "m3">>, <<"m3", "M3", "m3">>, <<"M4", "M4", "m4">>,
      <<"M5", "M5", "m5">>, <<"M6", "M6", "m6">>, <<"M7", "M7", "m7">>,
      <<"M8", "M8", "m8">>, <<"M9", "M9", "m9">>, <<"M10", "M10", "m10">>,
      <<"a", "A", "a">>, <<"A", "A", "a">>, <<"1", "1", "1">>, <<"-", "-", "-">>,
      <<"\\", "\\", "\\">>, <<"s", "S", "s">>, <<"+", "+", "+">> }
UpperAtom(a) == IF a = Space THEN a ELSE (CHOOSE w \in Words : w[1] = a)[2]
LowerAtom(a) == IF a = Space THEN a ELSE (CHOOSE w \in Words : w[1] = a)[3]
\* str.upper(), str.lower()
upper(str) == [n \in DOMAIN str |-> UpperAtom(str[n])]
lower(str) == [n \in DOMAIN str |-> LowerAtom(str[n])]

\* The entries a list of the service can hold: strings, and a number
StrEntry(str) == [type |-> "str", value |-> str]
HeadEntries ==
    { StrEntry(<<"M1">>), StrEntry(<<"m1">>), StrEntry(<<Space, "M1">>),
      StrEntry(<<"M1", Space>>), StrEntry(<<"M1", Space, "M2">>), StrEntry(<<"M2">>),
      StrEntry(<<"NONE">>), StrEntry(<<"none">>), StrEntry(<<Space, "None", Space>>),
      StrEntry(<<>>), StrEntry(<<Space>>), [type |-> "int", value |-> <<>>] }
TailNames == <<"M3", "M4", "M5", "M6", "M7", "M8", "M9", "M10">>
ModelsIn ==
    { h \o [k \in 1..n |-> StrEntry(<<TailNames[k]>>)] \o again :
        h \in UNION { [1..j -> HeadEntries] : j \in 0..MaxHeadModels },
        n \in 0..MaxTailModels,
        again \in { <<>>, <<StrEntry(<<"m3">>)>> } }

RECURSIVE Cleaned(_)
\* fetch_models, lines 84-91
Cleaned(models) ==
    IF models = <<>> THEN <<>>
    ELSE LET model == Head(models)
             trimmed == strip(model.value)
         IN  (IF model.type = "str" /\ upper(trimmed) # <<"NONE">> /\ trimmed # <<>>
              THEN <<trimmed>> ELSE <<>>)
             \o Cleaned(Tail(models))

RECURSIVE UniqueModels(_, _)
\* fetch_models, lines 92-98
UniqueModels(cleaned, seen) ==
    IF cleaned = <<>> THEN <<>>
    ELSE LET key == lower(Head(cleaned))
         IN  IF key \notin seen
             THEN <<Head(cleaned)>> \o UniqueModels(Tail(cleaned), seen \cup {key})
             ELSE UniqueModels(Tail(cleaned), seen)

\* fetch_models without its truncation
KeepAll(models, n) == models

\* unique_models[:MAX_MODELS], line 99
Truncated(models, n) == SubSeq(models, 1, Min(n, Len(models)))

\* fetch_models, lines 83-99, applied to the list of the answer
fetch_models(models) == Truncated(UniqueModels(Cleaned(models), {}), MAX_MODELS)

FetchModelsInit ==
    /\ fnInput \in ModelsIn
    /\ fnOutput = <<>>
    /\ fnPc = "called"

FetchModelsReturn ==
    /\ fnPc = "called"
    /\ fnOutput' = fetch_models(fnInput)
    /\ fnPc' = "returned"
    /\ UNCHANGED notFn
    /\ UNCHANGED fnInput

FetchModelsNext == FetchModelsReturn

(***************************************************************************)
(* Part 8.  download_urls_data.py: sanitize_filename.                      *)
(***************************************************************************)
\* Longest file name given to sanitize_filename, and largest max_length.
MaxNameLen == 9
MaxMaxLength == 8
\* The smallest max_length that leaves room for "unnamed"
MinMaxLength == 7

\* A file name is a sequence of characters.
NameChars == {"a", ".", " ", "/"}
InvalidChars == {"<", ">", ":", "\"", "/", "\\", "|", "?", "*"}
Whitespace == {" ", "\t", "\n", "\r"}
Unnamed == <<"u", "n", "n", "a", "m", "e", "d">>

\* re.sub(r'[<>:"/\\|?*]', '_', filename), line 45
SubInvalid(str) == [n \in DOMAIN str |-> IF str[n] \in InvalidChars THEN "_" ELSE str[n]]

RECURSIVE DropWhitespace(_)
DropWhitespace(str) ==
    IF str # <<>> /\ Head(str) \in Whitespace THEN DropWhitespace(Tail(str)) ELSE str

RECURSIVE SubWhitespace(_)
\* re.sub(r'\s+', '_', filename), line 46: every run of whitespace becomes one '_'
SubWhitespace(str) ==
    IF str = <<>> THEN <<>>
    ELSE IF Head(str) \in Whitespace THEN <<"_">> \o SubWhitespace(DropWhitespace(str))
    ELSE <<Head(str)>> \o SubWhitespace(Tail(str))

RECURSIVE LStripDots(_)
LStripDots(str) == IF str # <<>> /\ Head(str) = "." THEN LStripDots(Tail(str)) ELSE str
RECURSIVE RStripDots(_)
RStripDots(str) ==
    IF str # <<>> /\ str[Len(str)] = "." THEN RStripDots(SubSeq(str, 1, Len(str) - 1)) ELSE str
\* filename.strip('.'), line 47
StripDots(str) == RStripDots(LStripDots(str))

\* os.path.splitext for a name without separators: the extension starts at the
\* last dot, unless only dots stand before it
ExtStart(str) ==
    LET dots == {n \in DOMAIN str : str[n] = "." /\ \E k \in 1..(n - 1) : str[k] # "."}
    IN  IF dots = {} THEN Len(str) + 1
        ELSE CHOOSE n \in dots : \A k \in dots : k <= n
splitext(str) ==
    [name |-> SubSeq(str, 1, ExtStart(str) - 1), ext |-> SubSeq(str, ExtStart(str), Len(str))]

\* str[:k] of Python, k negative included
SliceTo(str, k) ==
    IF k >= 0 THEN SubSeq(str, 1, Min(k, Len(str)))
    ELSE SubSeq(str, 1, IF Len(str) + k > 0 THEN Len(str) + k ELSE 0)

\* sanitize_filename, lines 42-54
sanitize_filename(filename, max_length) ==
    LET stripped == StripDots(SubWhitespace(SubInvalid(filename)))
        parts == splitext(stripped)
        limited == IF Len(stripped) > max_length
                   THEN SliceTo(parts.name, max_length - Len(parts.ext)) \o parts.ext
                   ELSE stripped
    IN  IF limited = <<>> THEN Unnamed ELSE limited

SanitizeInit ==
    /\ fnInput \in [filename : UNION { [1..n -> NameChars] : n \in 0..MaxNameLen },
                     max_length : MinMaxLength..MaxMaxLength]
    /\ fnOutput = <<>>
    /\ fnPc = "called"

SanitizeReturn ==
    /\ fnPc = "called"
    /\ fnOutput' = sanitize_filename(fnInput.filename, fnInput.max_length)
    /\ fnPc' = "returned"
    /\ UNCHANGED notFn
    /\ UNCHANGED fnInput

SanitizeNext == SanitizeReturn

(***************************************************************************)
(* Part 9.  check_pdf_model_match.py: check_model_in_content.              *)
(***************************************************************************)
\* Longest model string and longest document text given to the matcher.
MaxModelLen == 3
MaxContentLen == 4

\* The width of the sliding window, lines 197-198
WindowLen == 100

\* The characters of the model strings and of the document texts
ModelChars == {"a", "1", "-", " "}
ContentChars == {"a", "A", "1", "-", " "}

\* \w and \d of the regular expressions, for the characters of the model
IsWordChar(c) == c \in {"a", "A", "1", "s", "S", "_"}
IsDigit(c) == c = "1"

\* pat in text
Contains(text, pat) ==
    \E p \in 0..(Len(text) - Len(pat)) : SubSeq(text, p + 1, p + Len(pat)) = pat

\* re.sub(r'[^\w\s]', '', model_normalized), line 172
RemovePunctuation(str) == SelectSeq(str, LAMBDA c : IsWordChar(c) \/ c \in Whitespace)

RECURSIVE ReplaceChar(_, _, _)
\* str.replace(ch, with) for a single character ch
ReplaceChar(str, ch, with) ==
    IF str = <<>> THEN <<>>
    ELSE (IF Head(str) = ch THEN with ELSE <<Head(str)>>) \o ReplaceChar(Tail(str), ch, with)

\* model_normalized with its hyphens left as they are
KeepHyphens(str) == str

\* model_normalized.replace("-", " "), line 181
HyphensToSpaces(str) == ReplaceChar(str, "-", <<" ">>)

\* check_model_in_content with an empty list of patterns
NoPatterns(model_normalized, model_clean) == <<>>

\* patterns, lines 176-182
Patterns(model_normalized, model_clean) ==
    << model_normalized,
       model_clean,
       ReplaceChar(model_normalized, " ", <<>>),
       ReplaceChar(model_normalized, " ", <<"-">>),
       HyphensToSpaces(model_normalized) >>

RECURSIVE SplitFrom(_, _)
\* str.split(): the runs of characters between whitespace; word is the run being read
SplitFrom(str, word) ==
    IF str = <<>> THEN (IF word = <<>> THEN <<>> ELSE <<word>>)
    ELSE IF Head(str) \in Whitespace
         THEN (IF word = <<>> THEN <<>> ELSE <<word>>) \o SplitFrom(Tail(str), <<>>)
         ELSE SplitFrom(Tail(str), Append(word, Head(str)))
split(str) == SplitFrom(str, <<>>)

RECURSIVE DigitRunsFrom(_, _)
\* re.findall(r'\d+', str), line 205
DigitRunsFrom(str, run) ==
    IF str = <<>> THEN (IF run = <<>> THEN <<>> ELSE <<run>>)
    ELSE IF IsDigit(Head(str)) THEN DigitRunsFrom(Tail(str), Append(run, Head(str)))
    ELSE (IF run = <<>> THEN <<>> ELSE <<run>>) \o DigitRunsFrom(Tail(str), <<>>)
DigitRuns(str) == DigitRunsFrom(str, <<>>)

\* str.isdigit()
isdigit(str) == str # <<>> /\ \A n \in DOMAIN str : IsDigit(str[n])

\* lines 192-201: every word in content_upper, and all of them within one window
\* content_upper[i:i+100] for an i in range(len(content_upper) - 100)
WordsCloseTogether(words, content_upper) ==
    /\ Len(words) > 1
    /\ \A w \in DOMAIN words : Contains(content_upper, words[w])
    /\ \E k \in 0..(Len(content_upper) - WindowLen - 1) :
          LET chunk == SubSeq(content_upper, k + 1, Min(k + WindowLen, Len(content_upper)))
          IN  \A w \in DOMAIN words : Contains(chunk, words[w])

\* re.search(f"{keyword}.*{num}|{num}.*{keyword}", content_upper), lines 214-215;
\* the texts of the model have no line break, so '.*' spans any text
KeywordAndNumber(keyword, num, text) ==
    \E p \in 0..(Len(text) - Len(keyword)), q \in 0..(Len(text) - Len(num)) :
        /\ SubSeq(text, p + 1, p + Len(keyword)) = keyword
        /\ SubSeq(text, q + 1, q + Len(num)) = num
        /\ q >= p + Len(keyword) \/ p >= q + Len(num)

\* lines 205-216
NumberNearKeyword(model_normalized, words, content_upper) ==
    /\ DigitRuns(model_normalized) # <<>>
    /\ Len(split(model_normalized)) > 1
    /\ \E n \in DOMAIN DigitRuns(model_normalized), w \in DOMAIN words :
          /\ ~isdigit(words[w])
          /\ KeywordAndNumber(words[w], DigitRuns(model_normalized)[n], content_upper)

\* \b at place p of text (between its characters p and p + 1)
WordBoundary(text, p) ==
    (p >= 1 /\ IsWordChar(text[p])) # (p < Len(text) /\ IsWordChar(text[p + 1]))

\* lines 219-220: every blank of model_normalized is replaced by the text \s+,
\* and re.escape then makes the whole a literal; the search ignores case
FinalRegex(model_normalized, content) ==
    LET literal == ReplaceChar(model_normalized, " ", <<"\\", "s", "+">>)
    IN  \E p \in 0..(Len(content) - Len(literal)) :
           /\ WordBoundary(content, p)
           /\ upper(SubSeq(content, p + 1, p + Len(literal))) = upper(literal)
           /\ WordBoundary(content, p + Len(literal))

\* check_model_in_content, lines 160-223
check_model_in_content(model, content) ==
    LET model_normalized == upper(strip(model))
        model_clean == RemovePunctuation(model_normalized)
        content_upper == upper(content)
        patterns == Patterns(model_normalized, model_clean)
        words == split(model_clean)
    IN  IF model = <<>> \/ content = <<>> THEN FALSE
        ELSE \/ \E n \in DOMAIN patterns :
                  patterns[n] # <<>> /\ Contains(content_upper, patterns[n])
             \/ WordsCloseTogether(words, content_upper)
             \/ NumberNearKeyword(model_normalized, words, content_upper)
             \/ FinalRegex(model_normalized, content)

MatcherInit ==
    /\ fnInput \in [model : UNION { [1..n -> ModelChars] : n \in 0..MaxModelLen },
                     content : UNION { [1..n -> ContentChars] : n \in 0..MaxContentLen }]
    /\ fnOutput = <<>>
    /\ fnPc = "called"

MatcherReturn ==
    /\ fnPc = "called"
    /\ fnOutput' = check_model_in_content(fnInput.model, fnInput.content)
    /\ fnPc' = "returned"
    /\ UNCHANGED notFn
    /\ UNCHANGED fnInput

MatcherNext == MatcherReturn

(***************************************************************************)
(* Part 10.  check_pdf_model_match.py: process_single_row.                 *)
(***************************************************************************)
\* The values of row['Model'] given to process_single_row: model strings, and
\* the missing value of an empty cell
RowModels == {NaN, <<"a">>, <<" ">>, <<"a", "-", "1">>, <<"1", " ", "a">>}

\* The error messages of extract_text_from_pdf and extract_text_from_html, lines
\* 68-84 and 109-118, and of the fallback of extract_text_from_url, lines 153-158
ExtractMessages ==
    { <<"PDF appears to be empty or image-based (no extractable text)">>,
      <<"HTTP Error: ", "404">>,
      <<"Request timeout - PDF download took too long">>,
      <<"HTML page appears to be empty">>,
      <<"Could not determine content type or extract text: ", "timeout">> }

\* str(e) of the exceptions raised inside process_single_row's try block: by
\* extract_text_from_url for a url that is no string (url.lower(), lines 127-137),
\* or with an empty message
RaisedMessages ==
    { <<"'float' object has no attribute 'lower'">>, <<>> }

\* What extract_text_from_url does, lines 120-158: it returns (text, None) with a
\* text that is not blank, returns ("", error_message), or raises
ExtractOutcomes ==
    { [kind |-> "text", text |-> t, message |-> <<>>] :
        t \in { c \in UNION { [1..n -> ContentChars] : n \in 1..MaxContentLen } :
                  strip(c) # <<>> } }
    \cup { [kind |-> "failed", text |-> <<>>, message |-> m] : m \in ExtractMessages }
    \cup { [kind |-> "raised", text |-> <<>>, message |-> m] : m \in RaisedMessages }

\* process_single_row without its except clause: the exception leaves the call
Propagated(message) ==
    [raises |-> TRUE, Model_Related |-> <<>>, status |-> "raised"]

\* lines 265-270: except Exception as e
Caught(message) ==
    [raises |-> FALSE, Model_Related |-> <<"Error: ">> \o message, status |-> "error"]

\* process_single_row, lines 225-270, for row['Model'] and what
\* extract_text_from_url does with the row's URL
process_single_row(model, outcome) ==
    IF outcome.kind = "raised" THEN Caught(outcome.message)
    ELSE IF outcome.text = <<>>
    THEN LET error_detail == IF outcome.message # <<>> THEN outcome.message
                             ELSE <<"Could not extract text">>
         IN  [raises |-> FALSE, Model_Related |-> <<"Error: ">> \o error_detail,
              status |-> "error"]
    ELSE IF model = NaN
    THEN Caught(<<"'float' object has no attribute 'strip'">>)
    ELSE IF check_model_in_content(model, outcome.text)
    THEN [raises |-> FALSE, Model_Related |-> <<"Yes">>, status |-> "related"]
    ELSE [raises |-> FALSE, Model_Related |-> <<"No">>, status |-> "not_related"]

SingleRowInit ==
    /\ fnInput \in [model : RowModels, outcome : ExtractOutcomes]
    /\ fnOutput = <<>>
    /\ fnPc = "called"

SingleRowReturn ==
    /\ fnPc = "called"
    /\ fnOutput' = process_single_row(fnInput.model, fnInput.outcome)
    /\ fnPc' = "returned"
    /\ UNCHANGED notFn
    /\ UNCHANGED fnInput

SingleRowNext == SingleRowReturn

(***************************************************************************)
(* Part 11.  download_urls_data.py: the save directory of download_url.    *)
(***************************************************************************)
\* The URLs and the Content-Type headers (lower-cased, line 181; "" for a response
\* without the header) that the directory is chosen for
ClassUrls ==
    { <<"http://x/a.pdf">>, <<"http://x/b.JPG">>, <<"http://x/c.png">>, <<"http://x/d.doc">>,
      <<"http://x/e.xlsx">>, <<"http://x/f.html">>, <<"http://x/g.zip">>, <<"http://y/page">> }
ClassContentTypes ==
    { "application/pdf", "text/html", "image/png", "image/jpeg", "application/msword",
      "text/plain", "application/octet-stream", "" }

\* download_url, lines 203-214: the directory for a URL and a content type
save_dir(url, content_type) == SaveDir(get_file_extension(url, content_type), content_type)

SaveDirInit ==
    /\ fnInput \in [url : ClassUrls, content_type : ClassContentTypes]
    /\ fnOutput = <<>>
    /\ fnPc = "called"

SaveDirReturn ==
    /\ fnPc = "called"
    /\ fnOutput' = save_dir(fnInput.url, fnInput.content_type)
    /\ fnPc' = "returned"
    /\ UNCHANGED notFn
    /\ UNCHANGED fnInput

SaveDirNext == SaveDirReturn

(***************************************************************************)
(* Part 12.  integrate_next_100_with_timing.py: main, as a function of the *)
(* three CSV files it reads to the two it writes.                          *)
(***************************************************************************)
\* Largest number of rows of all_urls_combined.csv and of the results CSV
MaxExistingRows == 2
MaxResultRows == 1

\* The four categories of the completion summary, lines 133-134 and 257
SummaryCategories ==
    <<"Technical Manuals", "Product Manuals", "Troubleshooting Resources", "Failure Cases">>

\* 'word in category_lower' for the category names of the model
CategoryHas(category, word) ==
    CASE category = "Technical Manuals" -> word \in {"technical", "tech"}
      [] category = "tech docs" -> word \in {"tech"}
      [] category = "Failure Cases" -> word \in {"failure", "case"}
      [] category = "Datasheets" -> FALSE
      [] OTHER -> FALSE

\* normalize_category, lines 64-77
normalize_category(category) ==
    IF CategoryHas(category, "technical") \/ CategoryHas(category, "tech")
    THEN "Technical Manuals"
    ELSE IF CategoryHas(category, "product") THEN "Product Manuals"
    ELSE IF CategoryHas(category, "troubleshoot") THEN "Troubleshooting Resources"
    ELSE IF CategoryHas(category, "failure") \/ CategoryHas(category, "case")
    THEN "Failure Cases"
    ELSE category

\* A missing URL cell, as pandas reads it
NoUrl == <<NaN>>

\* The rows of all_urls_combined.csv before the run (Model, Category and URL;
\* the other columns are carried along unread): the Model cell is a name or
\* missing, the URL cell a URL, a URL with a blank before it, or missing.
ExistingRows ==
    [Model : {"X1", NaN}, Category : {"Technical Manuals", "Failure Cases"},
     URL : {<<"http://x/a.pdf">>, <<Space, "http://x/a.pdf">>, NoUrl}]
AllUrlsCsvs == UNION { [1..n -> ExistingRows] : n \in 0..MaxExistingRows }

\* What parse_json_urls returns for the documentation cell of a results row:
\* the categories in the order of the JSON object, each with its list of URLs
UrlLists ==
    { <<<<"http://x/a.pdf">>>>, <<<<"http://y/page">>>>,
      <<<<"http://x/a.pdf">>, <<"http://x/a.pdf">>>> }
DocItems(category) == { [category |-> category, urls |-> urls] : urls \in UrlLists }
ParsedDocs ==
    {<<>>}
    \cup { <<item>> : item \in DocItems("Technical Manuals") \cup DocItems("tech docs")
                                \cup DocItems("Failure Cases") }
    \cup { <<a, b>> : a \in DocItems("tech docs"), b \in DocItems("Failure Cases") }
    \cup { << [category |-> "Datasheets", urls |-> <<<<"http://y/page">>>>] >> }
ResultRows == [Model : {"X1", "X2", NaN}, doc : ParsedDocs]
ResultsCsvs == UNION { [1..n -> ResultRows] : n \in 1..MaxResultRows }

\* A row of models_completion_summary.csv (its count columns and its Status)
SummaryRow(model, counts, status) ==
    [Model |-> model,
     Technical_Manual_URLs |-> counts[1], Product_Manual_URLs |-> counts[2],
     Troubleshooting_Resources_URLs |-> counts[3], Failure_Cases_URLs |-> counts[4],
     Total_URLs |-> counts[1] + counts[2] + counts[3] + counts[4],
     Status |-> status]
SummaryCsvs == { <<>>, << SummaryRow("X1", <<1, 0, 0, 0>>, "Incomplete") >> }

\* main, lines 107-113: the set of (Model, URL) pairs of the existing rows.  The
\* Model column loses its missing cells (dropna) before zip pairs it, place by
\* place, with the URL_clean column, which keeps a missing value for a missing
\* URL; zip stops at the end of the shorter one.
existing_model_urls(all_urls_df) ==
    LET models == SelectSeq([k \in DOMAIN all_urls_df |-> all_urls_df[k].Model],
                            LAMBDA m : m # NaN)
        URL_clean == [k \in DOMAIN all_urls_df |->
                         IF all_urls_df[k].URL = NoUrl THEN NoUrl
                         ELSE strip(all_urls_df[k].URL)]
    IN  { <<models[k], URL_clean[k]>> : k \in 1..Min(Len(models), Len(URL_clean)) }

\* stats['categories_fulfilled'] has the four categories as keys (lines 133-134);
\* line 212 raises KeyError for any other
IsSummaryCategory(category) ==
    \E c \in DOMAIN SummaryCategories : SummaryCategories[c] = category

\* The state of main's loop over the results: the entries made, the pairs
\* known, and whether a statement has raised
LoopState(new_entries, existing, raised) ==
    [new_entries |-> new_entries, existing |-> existing, raised |-> raised]

RECURSIVE AddUrls(_, _, _, _)
\* main, lines 186-212: the URLs of one category of one results row
AddUrls(model, category, urls, acc) ==
    IF urls = <<>> \/ acc.raised THEN acc
    ELSE LET url == Head(urls)
             model_url_key == <<model, strip(url)>>
             new_entry == [Model |-> model, Category |-> normalize_category(category),
                           URL |-> strip(url)]
         IN  IF url = <<>> \/ model_url_key \in acc.existing
             THEN AddUrls(model, category, Tail(urls), acc)
             ELSE AddUrls(model, category, Tail(urls),
                          LoopState(Append(acc.new_entries, new_entry),
                                    acc.existing \cup {model_url_key},
                                    ~IsSummaryCategory(normalize_category(category))))

RECURSIVE AddCategories(_, _, _)
\* main, lines 183-184: the categories of one results row, in their order
AddCategories(model, doc, acc) ==
    IF doc = <<>> THEN acc
    ELSE AddCategories(model, Tail(doc), AddUrls(model, Head(doc).category, Head(doc).urls, acc))

RECURSIVE AddResults(_, _)
\* main, lines 164-214: the rows of the results CSV; a row without a Model is
\* passed over
AddResults(results_df, acc) ==
    IF results_df = <<>> THEN acc
    ELSE AddResults(Tail(results_df),
                    IF Head(results_df).Model = NaN THEN acc
                    ELSE AddCategories(Head(results_df).Model, Head(results_df).doc, acc))

\* len(df[(df['Model'] == model) & (df['Category'] == cat)])
CountRows(rows, model, cat) ==
    Len(SelectSeq(rows, LAMBDA r : r.Model = model /\ r.Category = cat))

\* main, lines 250-258, for one category: the entries of this run, and then the
\* rows of combined_df, which holds the entries of this run as well
category_count(new_entries, combined_df, model, cat) ==
    CountRows(new_entries, model, cat) + CountRows(combined_df, model, cat)

RECURSIVE UpdateSummary(_, _, _, _)
\* main, lines 248-364: the summary rows of the models, taken in the given order;
\* the first row of a model is updated, a model without a row gets a new one
UpdateSummary(summary_df, order, new_entries, combined_df) ==
    IF order = <<>> THEN summary_df
    ELSE LET model == Head(order)
             counts == [c \in DOMAIN SummaryCategories |->
                           category_count(new_entries, combined_df, model, SummaryCategories[c])]
             row == SummaryRow(model, counts,
                               IF \A c \in DOMAIN counts : counts[c] > 0
                               THEN "Completed" ELSE "Incomplete")
             found == { k \in DOMAIN summary_df : summary_df[k].Model = model }
             idx == IF found = {} THEN Len(summary_df) + 1
                    ELSE CHOOSE k \in found : \A j \in found : k <= j
         IN  UpdateSummary(IF found = {} THEN Append(summary_df, row)
                           ELSE [summary_df EXCEPT ![idx] = row],
                           Tail(order), new_entries, combined_df)

\* all_models_to_process, lines 240-246
all_models_to_process(results_df, new_entries) ==
    { new_entries[k].Model : k \in DOMAIN new_entries }
    \cup ({ results_df[k].Model : k \in DOMAIN results_df } \ {NaN})

\* The orders in which a set can be iterated
Orders(set) ==
    { order \in [1..Cardinality(set) -> set] :
        \A j, k \in DOMAIN order : j # k => order[j] # order[k] }

\* main, lines 79-368: the files it leaves.  order is the order in which the
\* loop of line 248 takes the models.  When a statement raises, nothing has
\* been written.
integrate_main(files, order) ==
    LET loop == AddResults(files.results,
                           LoopState(<<>>, existing_model_urls(files.all_urls), FALSE))
        combined_df == files.all_urls \o loop.new_entries
    IN  IF loop.raised
        THEN [st |-> "raised", new_entries |-> <<>>, all_urls |-> files.all_urls,
              summary |-> files.summary]
        ELSE [st |-> "done", new_entries |-> loop.new_entries, all_urls |-> combined_df,
              summary |-> UpdateSummary(files.summary, order, loop.new_entries, combined_df)]

IntegrateInit ==
    /\ fnInput \in [all_urls : AllUrlsCsvs, results : ResultsCsvs, summary : SummaryCsvs]
    /\ fnOutput = <<>>
    /\ fnPc = "called"

IntegrateReturn ==
    /\ fnPc = "called"
    /\ \E order \in Orders(all_models_to_process(fnInput.results,
                               AddResults(fnInput.results,
                                          LoopState(<<>>, existing_model_urls(fnInput.all_urls),
                                                    FALSE)).new_entries)) :
          fnOutput' = integrate_main(fnInput, order)
    /\ fnPc' = "returned"
    /\ UNCHANGED notFn
    /\ UNCHANGED fnInput

IntegrateNext == IntegrateReturn

(***************************************************************************)
(* Specifications: one per script, the other scripts idle.                 *)
(***************************************************************************)
vars == <<batchVars, dlVars, upVars, mVars, ckVars, cntVars, fnVars>>

\* The state before a script is started, the other scripts idle
InitBatch == BatchInit /\ DlIdle /\ UpIdle /\ MIdle /\ CkIdle /\ CntIdle /\ FnIdle
InitDownload == DlInit /\ BatchIdle /\ UpIdle /\ MIdle /\ CkIdle /\ CntIdle /\ FnIdle
InitUpload == UpInit /\ BatchIdle /\ DlIdle /\ MIdle /\ CkIdle /\ CntIdle /\ FnIdle
InitModels == MInit /\ BatchIdle /\ DlIdle /\ UpIdle /\ CkIdle /\ CntIdle /\ FnIdle
\* add_models_parallel started on one of the short input files, or on a file of
\* MODELS_SAVE_INTERVAL rows of one asset (one task, and an interval flush)
InitModelsFair ==
    /\ InitModels
    /\ \/ Len(inputCsv) <= MaxFewRows
       \/ inputCsv = MkCsv(MODELS_SAVE_INTERVAL, "A", "A")
InitFetchModels ==
    FetchModelsInit /\ BatchIdle /\ DlIdle /\ UpIdle /\ MIdle /\ CkIdle /\ CntIdle
InitSanitize ==
    SanitizeInit /\ BatchIdle /\ DlIdle /\ UpIdle /\ MIdle /\ CkIdle /\ CntIdle
InitMatcher ==
    MatcherInit /\ BatchIdle /\ DlIdle /\ UpIdle /\ MIdle /\ CkIdle /\ CntIdle
InitSingleRow ==
    SingleRowInit /\ BatchIdle /\ DlIdle /\ UpIdle /\ MIdle /\ CkIdle /\ CntIdle
InitSaveDir ==
    SaveDirInit /\ BatchIdle /\ DlIdle /\ UpIdle /\ MIdle /\ CkIdle /\ CntIdle
InitIntegrate ==
    IntegrateInit /\ BatchIdle /\ DlIdle /\ UpIdle /\ MIdle /\ CkIdle /\ CntIdle
InitUploadCount == CntInit /\ BatchIdle /\ DlIdle /\ UpIdle /\ MIdle /\ CkIdle /\ FnIdle
InitCheck == CkInit /\ BatchIdle /\ DlIdle /\ UpIdle /\ MIdle /\ CntIdle /\ FnIdle

SpecBatch == InitBatch /\ [][BatchNext]_vars
SpecDownload == InitDownload /\ [][DlNext]_vars
SpecUpload == InitUpload /\ [][UpNext]_vars
SpecModels == InitModels /\ [][MNext]_vars
\* The event loop runs every task that can go on, and every fetch_models call ends
\* (it returns, or raises at its timeout of 180 s at the latest).
SpecModelsFair == InitModelsFair /\ [][MNext]_vars /\ WF_vars(MNext)
SpecFetchModels == InitFetchModels /\ [][FetchModelsNext]_vars
SpecSanitize == InitSanitize /\ [][SanitizeNext]_vars
SpecMatcher == InitMatcher /\ [][MatcherNext]_vars
SpecSingleRow == InitSingleRow /\ [][SingleRowNext]_vars
SpecSaveDir == InitSaveDir /\ [][SaveDirNext]_vars
SpecIntegrate == InitIntegrate /\ [][IntegrateNext]_vars
SpecUploadCount == InitUploadCount /\ [][CntNext]_vars
SpecCheck == InitCheck /\ [][CkNext]_vars

(***************************************************************************)
(* Properties of download_urls_data.py, batches counted (SpecBatch).       *)
(***************************************************************************)

\* C1: in download_batch, at every moment the number of download_url handlers
\* that have begun their HTTP request and have not yet returned is at most
\* CONCURRENT_DOWNLOADS, also when the batch holds more items than that.
C1_InFlightAtMostK == InFlight <= CONCURRENT_DOWNLOADS

\* C4: at every moment of a run, the number of outcomes computed and not yet
\* written to the progress file is at most SAVE_INTERVAL - 1.
C4_UnsavedBelowInterval == nUnsaved <= SAVE_INTERVAL - 1

(***************************************************************************)
(* Properties of download_urls_data.py and add_cloudflare_storage_links.py *)
(* with the URLs named (SpecDownload).                                     *)
(***************************************************************************)

\* C2: whenever download_url ends with an error outcome for a URL, the progress
\* mapping afterwards holds a record under that URL's hash with status 'error'
\* and a non-empty error message.
C2_ErrorOutcomeRecorded ==
    last.result.status = "error" =>
        /\ md5(last.url) \in DOMAIN progress
        /\ progress[md5(last.url)].status = "error"
        /\ progress[md5(last.url)].error # None

\* C3: when the process is interrupted, at any point of a save or elsewhere, the
\* progress file on disk is a complete file (the previous content, which may be
\* no file at all, or the new content), never an empty or partial one.
C3_ProgressFileCompleteAfterInterrupt ==
    pc = "crashed" => progressFile.st \in {"absent", "complete"}

\* Every URL that read_urls_from_csv yields has a 'success' record in the
\* progress file.
AllSuccessOnDisk ==
    /\ progressFile.st = "complete"
    /\ read_urls_from_csv # <<>>
    /\ \A k \in DOMAIN read_urls_from_csv :
          AlreadyDownloaded(read_urls_from_csv[k].url, progressFile.data)

\* C5: a run of main started when every URL of the CSV has a 'success' record
\* in the progress file is over in its first step: it issues no HTTP request,
\* writes no content file and leaves the progress file and the error log as
\* they are, so that the state after it is again one in which a run does nothing.
C5_RunIsNoOpWhenAllSuccess ==
    [][ (MainStart /\ AllSuccessOnDisk) =>
            /\ pc' = "done"
            /\ httpRequests' = 0
            /\ contentFiles' = contentFiles
            /\ progressFile' = progressFile
            /\ errorFile' = errorFile
            /\ AllSuccessOnDisk' ]_vars

\* C5 witness: a run that issued no request has ended with every URL downloaded
\* and the files of an earlier run on disk.
C5_Witness ==
    /\ pc = "done"
    /\ httpRequests = 0
    /\ AllSuccessOnDisk
    /\ contentFiles # {}

\* Rows r1 and r2 of the CSV hold the same URL, and both have Status 'downloaded'.
SameUrlRows(r1, r2) ==
    /\ r1 # r2
    /\ strip(csv[r1].URL) = strip(csv[r2].URL)
    /\ StartsWithHttp(strip(csv[r1].URL))
    /\ StatusValue(cfCsv.rows[r1].Status) = "downloaded"
    /\ StatusValue(cfCsv.rows[r2].Status) = "downloaded"

\* C7: when the same URL stands in two rows, after a download run and
\* add_cloudflare_storage_links both rows carry the same cloudflare_storage
\* value, which is the one derived from the file_path of the URL's entry in the
\* progress file when that entry says 'success'; and when no request failed and
\* the process was never killed, the progress file holds exactly one entry for
\* the URL, with status 'success' and the path of a file that exists.
C7_DuplicateUrlOneEntrySameLink ==
    cfCsv.st = "written" =>
        \A r1, r2 \in DOMAIN csv :
            SameUrlRows(r1, r2) =>
                LET url == strip(csv[r1].URL)
                    data == progressFile.data
                IN  /\ cfCsv.rows[r1].cloudflare_storage = cfCsv.rows[r2].cloudflare_storage
                    /\ AlreadyDownloaded(url, data) =>
                          cfCsv.rows[r1].cloudflare_storage
                              = CloudflareUrl(data[md5(url)].file_path)
                    /\ faults = 0 =>
                          /\ Cardinality({id \in DOMAIN data : strip(data[id].url) = url}) = 1
                          /\ AlreadyDownloaded(url, data)
                          /\ data[md5(url)].file_path \in contentFiles

\* C7 witness: the CSV of two rows with one URL has been downloaded without a
\* fault (both rows were fetched: two files) and both rows have their link.
C7_Witness ==
    /\ cfCsv.st = "written"
    /\ faults = 0
    /\ Len(csv) = 2
    /\ SameUrlRows(1, 2)
    /\ Cardinality(contentFiles) = 2
    /\ cfCsv.rows[1].cloudflare_storage # <<>>
    /\ cfCsv.rows[1].cloudflare_storage = cfCsv.rows[2].cloudflare_storage

\* A response whose declared or actual length is over the cap
Oversize(resp) ==
    /\ resp.kind = "response"
    /\ resp.content_length > MAX_FILE_SIZE \/ resp.body > MAX_FILE_SIZE

\* C9 as stated: a response whose declared Content-Length or actual body length
\* exceeds MAX_FILE_SIZE ends with status 'error' and a 'File too large'
\* message, and no file is written for it.
C9_OversizeEndsFileTooLarge ==
    Oversize(last.resp) =>
        /\ last.result.status = "error"
        /\ Head(last.result.error) = "File too large"
        /\ last.wrote = {}

\* C9: a response whose declared Content-Length or actual body length exceeds
\* MAX_FILE_SIZE ends with status 'error' and no file written for it; its
\* message is 'File too large' when its status is 200, and 'HTTP <status>'
\* otherwise.
C9_OversizeNeverStored ==
    Oversize(last.resp) =>
        /\ last.result.status = "error"
        /\ last.wrote = {}
        /\ Head(last.result.error) =
              IF last.resp.status = 200 THEN "File too large" ELSE "HTTP"

\* C9 witness: a 200 response without Content-Length whose body is over the cap
\* has been rejected.
C9_Witness ==
    /\ Oversize(last.resp)
    /\ last.resp.status = 200
    /\ last.resp.content_length = -1
    /\ last.result.status = "error"
    /\ Head(last.result.error) = "File too large"

\* The two lists hold the same rows
SameRows(rows1, rows2) ==
    /\ Len(rows1) = Len(rows2)
    /\ {rows1[n] : n \in DOMAIN rows1} = {rows2[n] : n \in DOMAIN rows2}

\* C21: while a flush holds the lock (its save_models is writing the file), no
\* step changes output_rows or total_processed, and rows_since_save changes only
\* when the flush ends and resets it; the task that holds the lock is in its
\* flush, not in a fetch_models call; and every file written holds exactly the
\* rows recorded before its flush began, which are the rows recorded so far.
C21_UpdatesAndFlushesExclusive ==
    [][/\ lock # "free" =>
            /\ tasks[lock].pc = "flush"
            /\ rows_copy = output_rows
            /\ output_rows' = output_rows
            /\ total_processed' = total_processed
            /\ \/ rows_since_save' = rows_since_save
               \/ lock' = "free" /\ rows_since_save' = 0
       /\ outputFile' # outputFile => SameRows(outputFile'.rows, output_rows)]_vars

\* C21 witness: a flush is writing the file while another task has its results
\* and waits for the lock to record them.
C21_Witness ==
    /\ lock # "free"
    /\ outputFile.st = "absent"
    /\ \E b \in DOMAIN tasks : b # lock /\ tasks[b].pc = "record"

AllUploadedOnDisk ==
    /\ ~forceReupload
    /\ upProgressFile.st = "complete"
    /\ get_all_files # {}
    /\ \A f \in get_all_files :
          \E id \in DOMAIN upProgressFile.data :
              /\ upProgressFile.data[id].status = "success"
              /\ upProgressFile.data[id].s3_key = generate_s3_key(f)

\* C6 as stated: a run of main with FORCE_REUPLOAD off, when every file has its
\* key marked 'success', makes no network call to the object store and leaves
\* the progress file and the error log unchanged.
C6_NoObjectStoreCall ==
    [][ ((\E credentials, reachable \in BOOLEAN : UpMainStart(credentials, reachable))
           /\ AllUploadedOnDisk) =>
            /\ headBucketCalls' + uploadCalls' = 0
            /\ upProgressFile' = upProgressFile
            /\ upErrorFile' = upErrorFile ]_vars

\* C6: a run of main with FORCE_REUPLOAD off, when every file has its key marked
\* 'success', is over in its first step; its only call to the object store is
\* the head_bucket of the connection test, made once unless a credential is
\* empty: it uploads nothing, and it leaves the bucket, the progress file and
\* the error log unchanged.
C6_NoUploadWhenAllUploaded ==
    [][ ((\E credentials, reachable \in BOOLEAN : UpMainStart(credentials, reachable))
           /\ AllUploadedOnDisk) =>
            /\ upPc' \in {"all_uploaded", "no_bucket", "no_credentials"}
            /\ headBucketCalls' = IF upPc' = "no_credentials" THEN 0 ELSE 1
            /\ uploadCalls' = 0
            /\ bucket' = bucket
            /\ upProgressFile' = upProgressFile
            /\ upErrorFile' = upErrorFile ]_vars

\* C6 witness: with every file uploaded by an earlier run, a run has found
\* nothing to upload and returned.
C6_Witness ==
    /\ upPc = "all_uploaded"
    /\ AllUploadedOnDisk
    /\ {generate_s3_key(f) : f \in get_all_files} \subseteq bucket
    /\ headBucketCalls = 1
    /\ uploadCalls = 0

(***************************************************************************)
(* Properties of add_models_parallel.py (SpecModels).                      *)
(***************************************************************************)

\* rows is in nondecreasing order of (_seq, _model_idx)
InKeyOrder(rows) ==
    \A k \in 1..(Len(rows) - 1) : KeyLeq(rows[k], rows[k + 1])

\* C8: every file written by save_models, at an interval flush and at the final
\* flush, lists its rows in nondecreasing order of (_seq, _model_idx), whatever
\* order the tasks recorded their results in.
C8_SavedRowsInKeyOrder ==
    outputFile.st = "written" => InKeyOrder(outputFile.rows)

\* C8 witness: an interval flush has written the file while the rows in memory
\* were not in key order (a task recorded a later row before an earlier one).
C8_Witness ==
    /\ mPc = "gather"
    /\ outputFile.st = "written"
    /\ Len(outputFile.rows) >= MODELS_SAVE_INTERVAL
    /\ ~InKeyOrder(SubSeq(output_rows, 1, Len(outputFile.rows)))
    /\ InKeyOrder(outputFile.rows)

(***************************************************************************)
(* Properties of check_pdf_model_match.py (SpecCheck).                     *)
(***************************************************************************)

\* The Model_Related cell of row idx was not empty and not blank when the
\* current run began.
FilledAtStart(idx) ==
    /\ ckStart.hasColumn
    /\ ckStart.rows[idx].Model_Related \notin {"", " "}

\* Row idx had a URL cell that was not empty when the current run began.
UrlAtStart(idx) ==
    ckStart.rows[idx].URL # "" \/ ckStart.rows[idx].Cloudflare_Storage # ""

\* C10: a row whose Model_Related cell is not blank when the run starts is never
\* scheduled and never fetched, and its Model_Related value in the table in
\* memory and in every saved table is the one it had at the start; every
\* scheduled row and every fetched row had a blank Model_Related cell and a URL
\* at the start.
C10_FilledRowsUntouched ==
    /\ \A idx \in DOMAIN ckStart.rows :
          FilledAtStart(idx) =>
              /\ idx \notin DOMAIN ckFutures
              /\ idx \notin fetched
              /\ ckFile.rows[idx].Model_Related = ckStart.rows[idx].Model_Related
              /\ idx \in DOMAIN df =>
                    df[idx].Model_Related = ckStart.rows[idx].Model_Related
    /\ \A idx \in DOMAIN ckFutures \cup fetched : ~FilledAtStart(idx) /\ UrlAtStart(idx)

\* C10 witness: a run over a table with a filled row that has a URL and a
\* pending row has fetched the pending row and saved the table.
C10_Witness ==
    /\ ckPc = "done"
    /\ \E idx \in DOMAIN ckStart.rows : FilledAtStart(idx) /\ UrlAtStart(idx)
    /\ fetched # {}
    /\ \A idx \in fetched : ckFile.rows[idx].Model_Related \in Verdicts

\* The keys that main is to submit: of every file when FORCE_REUPLOAD is set, and
\* otherwise of the files whose key is not the s3_key of a 'success' record of
\* the progress file.
KeysToSubmit ==
    {generate_s3_key(f) :
        f \in {g \in get_all_files :
                  \/ forceReupload
                  \/ ~\E id \in DOMAIN up_load_progress :
                        /\ up_load_progress[id].status = "success"
                        /\ up_load_progress[id].s3_key = generate_s3_key(g)}}

\* C11: a run of main that gets past the connection test submits a file if and
\* only if FORCE_REUPLOAD is set or the file's key is not the s3_key of a
\* 'success' record; and every object that an upload stores is stored under the
\* key of a submitted file whose upload is running.
C11_SubmittedIffNotUploaded ==
    [][ /\ ((\E credentials, reachable \in BOOLEAN : UpMainStart(credentials, reachable))
            /\ upPc' \in {"pool", "all_uploaded"})
           => DOMAIN futures' = KeysToSubmit
        /\ \A k \in bucket' \ bucket :
              /\ k \in DOMAIN futures
              /\ futures[k] = "running"
              /\ \E f \in get_all_files : generate_s3_key(f) = k ]_vars

\* C11 witness: with FORCE_REUPLOAD off, a run has submitted one file and left
\* out another, whose key an earlier run had uploaded; the submitted file has
\* been stored under its key.
C11_Witness ==
    /\ upPc = "pool"
    /\ ~forceReupload
    /\ \E f \in get_all_files : generate_s3_key(f) \notin DOMAIN futures
    /\ \E k \in DOMAIN futures : futures[k] = "success" /\ k \in bucket

(***************************************************************************)
(* Properties of upload_to_r2.py, completions counted (SpecUploadCount).   *)
(***************************************************************************)

\* C12: at every moment of the as_completed loop, the number of completed
\* outcomes that are not yet saved to disk is at most SAVE_INTERVAL - 1,
\* whatever the outcomes were (success, error result, raised exception).
C12_UnsavedUploadsBelowInterval == cntUnsaved <= R2_SAVE_INTERVAL - 1

(***************************************************************************)
(* Properties of add_models_parallel.py under fair scheduling              *)
(* (SpecModelsFair).                                                       *)
(***************************************************************************)

\* Every loaded input row has been recorded in the tracker.
AllRowsRecorded ==
    /\ total_processed = Len(load_rows)
    /\ \A k \in DOMAIN load_rows :
          \E n \in DOMAIN output_rows : output_rows[n].seq = load_rows[k].seq

\* C13: a row whose fetch_models call raised goes on with the empty model list,
\* its task is never ended by the error, and the run ends with every loaded
\* input row recorded in the tracker, whichever calls raised.
C13_RaisedRowsRecorded ==
    /\ [](\A a \in DOMAIN tasks :
            /\ tasks[a].pc \in {"fetch", "record", "flush", "done"}
            /\ (tasks[a].pc = "record" /\ tasks[a].raised) => tasks[a].models = <<>>)
    /\ <>(mPc = "done" /\ AllRowsRecorded)

\* C13 witness: with two assets at work, the fetch_models call of a row raised;
\* the row was recorded with an empty Model, and its task is at its next row.
C13_Witness ==
    /\ mPc = "gather"
    /\ Cardinality(DOMAIN tasks) = 2
    /\ \E a \in DOMAIN tasks :
          /\ tasks[a].raised
          /\ tasks[a].pc = "fetch"
          /\ tasks[a].pos > 1
          /\ \E n \in DOMAIN output_rows :
                /\ output_rows[n].seq = RowsOf(a)[tasks[a].pos - 1].seq
                /\ output_rows[n].Model = ""

(***************************************************************************)
(* Properties of fetch_models (SpecFetchModels).                           *)
(***************************************************************************)

\* Entry n of the input survives the cleaning: a string that is not blank and
\* not 'NONE' in any letter case
Survives(n) ==
    /\ fnInput[n].type = "str"
    /\ strip(fnInput[n].value) # <<>>
    /\ lower(strip(fnInput[n].value)) # <<"none">>

\* The surviving entries that no earlier surviving entry equals, case ignored
FirstOccurrences ==
    {n \in DOMAIN fnInput :
        /\ Survives(n)
        /\ ~\E m \in 1..(n - 1) :
              /\ Survives(m)
              /\ lower(strip(fnInput[m].value)) = lower(strip(fnInput[n].value))}

\* The k-th of them in input order
KthFirst(k) ==
    CHOOSE n \in FirstOccurrences : Cardinality({m \in FirstOccurrences : m < n}) = k - 1

\* C14: the list fetch_models returns holds only non-empty strings without
\* leading or trailing blanks, none equal to 'NONE' and no two equal when case
\* is ignored; it has at most MAX_MODELS entries, and they are the first
\* occurrences of the surviving input entries, trimmed, in input order.
C14_FetchModelsCleaned ==
    fnPc = "returned" =>
        /\ Len(fnOutput) = Min(MAX_MODELS, Cardinality(FirstOccurrences))
        /\ \A k \in DOMAIN fnOutput :
              /\ fnOutput[k] # <<>>
              /\ Head(fnOutput[k]) # Space
              /\ fnOutput[k][Len(fnOutput[k])] # Space
              /\ upper(fnOutput[k]) # <<"NONE">>
              /\ fnOutput[k] = strip(fnInput[KthFirst(k)].value)
        /\ \A j, k \in DOMAIN fnOutput :
              j # k => lower(fnOutput[j]) # lower(fnOutput[k])

\* C14 witness: a list with a padded name, a 'none', a repeat in another case
\* and more than MAX_MODELS different names has been cut down to MAX_MODELS.
C14_Witness ==
    /\ fnPc = "returned"
    /\ Len(fnOutput) = MAX_MODELS
    /\ Cardinality(FirstOccurrences) > MAX_MODELS
    /\ \E n \in DOMAIN fnInput : fnInput[n].type = "str" /\ upper(strip(fnInput[n].value)) = <<"NONE">>
    /\ \E n \in DOMAIN fnInput : Survives(n) /\ fnInput[n].value # strip(fnInput[n].value)
    /\ \E n \in DOMAIN fnInput : Survives(n) /\ n \notin FirstOccurrences

(***************************************************************************)
(* Properties of sanitize_filename (SpecSanitize).                         *)
(***************************************************************************)

\* C15: for max_length >= 7, sanitize_filename returns a non-empty name of at
\* most max_length characters, none of them one of < > : " / \ | ? * and none
\* of them whitespace.
C15_SanitizedNameSafeAndShort ==
    fnPc = "returned" =>
        /\ fnOutput # <<>>
        /\ Len(fnOutput) <= fnInput.max_length
        /\ \A n \in DOMAIN fnOutput : fnOutput[n] \notin InvalidChars \cup Whitespace

(***************************************************************************)
(* Properties of check_model_in_content (SpecMatcher).                     *)
(***************************************************************************)

\* C16: when the model is not empty after trimming and the document text
\* contains the trimmed, upper-cased model, check_model_in_content returns True.
C16_ExactUppercaseMatches ==
    (/\ fnPc = "returned"
     /\ strip(fnInput.model) # <<>>
     /\ Contains(fnInput.content, upper(strip(fnInput.model))))
        => fnOutput = TRUE

\* C16 witness: a model with a lower-case letter and padding, found in a text
\* in which it is part of a longer word.
C16_Witness ==
    /\ fnPc = "returned"
    /\ fnInput.model = <<" ", "a", "1">>
    /\ fnInput.content = <<"1", "A", "1", "a">>
    /\ fnOutput = TRUE

\* The model has a hyphen
HasHyphen(str) == \E n \in DOMAIN str : str[n] = "-"

\* C17: when the model has hyphens and the document text contains the
\* upper-cased model with each hyphen replaced by a space,
\* check_model_in_content returns True.
C17_HyphensAsSpacesMatch ==
    (/\ fnPc = "returned"
     /\ HasHyphen(fnInput.model)
     /\ Contains(fnInput.content, ReplaceChar(upper(fnInput.model), "-", <<" ">>)))
        => fnOutput = TRUE

\* C17 witness: the model a-1 is found in a text that spells it A 1.
C17_Witness ==
    /\ fnPc = "returned"
    /\ fnInput.model = <<"a", "-", "1">>
    /\ fnInput.content = <<"A", " ", "1">>
    /\ fnOutput = TRUE

RECURSIVE TokensFrom(_, _)
\* The letter/digit tokens of a string: its longest runs of letters and digits
TokensFrom(str, run) ==
    IF str = <<>> THEN (IF run = <<>> THEN {} ELSE {run})
    ELSE IF IsWordChar(Head(str)) THEN TokensFrom(Tail(str), Append(run, Head(str)))
    ELSE (IF run = <<>> THEN {} ELSE {run}) \cup TokensFrom(Tail(str), <<>>)

\* The text is unrelated to the model: no token of the model occurs in it
Unrelated(model, content) ==
    \A t \in TokensFrom(upper(model), <<>>) : ~Contains(upper(content), t)

\* C18: for a document text that is not empty and unrelated to the model,
\* check_model_in_content returns False, also when the model has no letter and
\* no digit.
C18_UnrelatedTextDoesNotMatch ==
    (/\ fnPc = "returned"
     /\ fnInput.content # <<>>
     /\ Unrelated(fnInput.model, fnInput.content))
        => fnOutput = FALSE

\* All the words occur inside one span of at most WindowLen consecutive
\* characters of the text
WithinOneSpan(words, text) ==
    \E from \in 1..Len(text), to \in 1..Len(text) :
        /\ to - from + 1 <= WindowLen
        /\ \A w \in DOMAIN words : Contains(SubSeq(text, from, to), words[w])

\* The model is made of letters, digits and blanks only
PlainModel(model) == RemovePunctuation(model) = model

\* C25: for a model of two or more whitespace-delimited tokens and a document in
\* which all the tokens occur inside some span of at most 100 consecutive
\* characters, check_model_in_content returns True, also for a document of 100
\* characters or fewer.
C25_TokensInOneSpanMatch ==
    (/\ fnPc = "returned"
     /\ PlainModel(fnInput.model)
     /\ Len(split(upper(fnInput.model))) >= 2
     /\ WithinOneSpan(split(upper(fnInput.model)), upper(fnInput.content)))
        => fnOutput = TRUE

RECURSIVE TokensSpacedAt(_, _, _, _)
\* From place p of the text on (after its character p) stand the tokens k,
\* k + 1, ... in this order and in any letter case, each two of them separated
\* by a non-empty run of whitespace, the last one followed by a word boundary
TokensSpacedAt(tokens, k, text, p) ==
    LET end == p + Len(tokens[k])
    IN  /\ end <= Len(text)
        /\ upper(SubSeq(text, p + 1, end)) = upper(tokens[k])
        /\ IF k = Len(tokens) THEN WordBoundary(text, end)
           ELSE \E q \in (end + 1)..Len(text) :
                   /\ \A n \in (end + 1)..q : text[n] \in Whitespace
                   /\ TokensSpacedAt(tokens, k + 1, text, q)

\* The text contains the tokens of the model in order, separated by
\* whitespace runs and delimited by word boundaries
ContainsSpaced(model, text) ==
    LET tokens == split(model)
    IN  /\ tokens # <<>>
        /\ \E p \in 0..Len(text) : WordBoundary(text, p) /\ TokensSpacedAt(tokens, 1, text, p)

\* C26: for a model with internal spaces and a document that contains the
\* model's tokens in order, in any letter case, separated by any non-empty
\* whitespace run (two blanks, say) and delimited by word boundaries,
\* check_model_in_content returns True.
C26_AnyWhitespaceRunMatches ==
    (/\ fnPc = "returned"
     /\ PlainModel(fnInput.model)
     /\ Len(split(fnInput.model)) >= 2
     /\ ContainsSpaced(fnInput.model, fnInput.content))
        => fnOutput = TRUE

(***************************************************************************)
(* Properties of process_single_row (SpecSingleRow).                       *)
(***************************************************************************)

\* The text starts with 'Error: '
IsErrorText(text) == Len(text) >= 1 /\ text[1] = "Error: "

\* C19: process_single_row raises nothing and returns a Model_Related that is
\* 'Yes', 'No' or a text starting with 'Error: '; it is 'No' only when a text was
\* extracted and check_model_in_content returned False for it, and it is an
\* 'Error: ' text whenever the extraction failed or an exception was raised.
C19_VerdictYesNoOrError ==
    fnPc = "returned" =>
        LET extracted == fnInput.outcome.kind = "text"
            excepted == fnInput.outcome.kind = "raised" \/ (extracted /\ fnInput.model = NaN)
        IN  /\ ~fnOutput.raises
            /\ \/ fnOutput.Model_Related \in {<<"Yes">>, <<"No">>}
               \/ IsErrorText(fnOutput.Model_Related)
            /\ fnOutput.Model_Related = <<"No">> =>
                  /\ extracted
                  /\ fnInput.model # NaN
                  /\ ~check_model_in_content(fnInput.model, fnInput.outcome.text)
            /\ (~extracted \/ excepted) => IsErrorText(fnOutput.Model_Related)

\* C19 witness: a text was extracted for a row whose Model cell is empty, and
\* the matcher raised on it.
C19_Witness ==
    /\ fnPc = "returned"
    /\ fnInput.outcome.kind = "text"
    /\ fnInput.model = NaN
    /\ IsErrorText(fnOutput.Model_Related)

(***************************************************************************)
(* Properties of add_cloudflare_storage_links.process_csv (SpecDownload).  *)
(***************************************************************************)

\* C20: process_csv writes the file back with every row, in the same order and
\* with its URL and Status cells as they were, whatever the letter case of the
\* header's cloudflare_storage column; the file never has fewer rows afterwards.
C20_RowsAndColumnsKept ==
    [][\A cfcol \in CfColumns,
          statuses \in UNION { [1..n -> StatusCells] : n \in 1..MaxRows } :
          (progressFile.st = "complete" /\ AddCloudflareLinks(cfcol, statuses)) =>
              /\ csv' = csv
              /\ cfCsv'.st = "written"
              /\ DOMAIN cfCsv'.rows = DOMAIN csv
              /\ \A r \in DOMAIN csv : cfCsv'.rows[r].Status = statuses[r]]_vars

(***************************************************************************)
(* Properties of download_url's save directory (SpecSaveDir).              *)
(***************************************************************************)

\* The directory of the class an extension belongs to; "other" for none
ExtensionDir(ext) ==
    IF ext \in PDF_EXTENSIONS THEN "pdfs"
    ELSE IF ext \in IMAGE_EXTENSIONS THEN "images"
    ELSE IF ext \in DOC_EXTENSIONS THEN "documents"
    ELSE IF ext = ".html" THEN "html"
    ELSE "other"

\* The directories of the classes that a content type names
ContentTypeDirs(content_type) ==
    (IF CtHas(content_type, "pdf") THEN {"pdfs"} ELSE {})
    \cup (IF CtHas(content_type, "image") THEN {"images"} ELSE {})
    \cup (IF \E doc \in {"msword", "spreadsheet", "presentation"} : CtHas(content_type, doc)
          THEN {"documents"} ELSE {})
    \cup (IF CtHas(content_type, "html") THEN {"html"} ELSE {})

\* The order in which download_url tries the classes
DirRank(dir) ==
    CASE dir = "pdfs" -> 1 [] dir = "images" -> 2 [] dir = "documents" -> 3
      [] dir = "html" -> 4 [] OTHER -> 5

SameNameWritten(path) ==
    { p \in contentFiles : [p EXCEPT !.dup = 0] = [path EXCEPT !.dup = 0] }

\* C24: no path that a download_url call writes (the content file and, for a
\* page, its text file) exists immediately before the call writes it, whatever
\* the order in which the downloads of a batch get their responses; and when
\* the generated file name is taken, the file is written under that name with
\* the first free number 1, 2, ... put before the extension.
C24_NeverOverwritesContentFile ==
    [][ (last' # last /\ last'.wrote # {}) =>
            /\ last'.wrote \cap contentFiles = {}
            /\ contentFiles' = contentFiles \cup last'.wrote
            /\ LET file_path == last'.result.file_path
                   taken == SameNameWritten(file_path)
               IN  /\ file_path \in last'.wrote
                   /\ ~file_path.text
                   /\ file_path.dup = Cardinality({ p \in taken : ~p.text })
                   /\ \A p \in taken : ~p.text => p.dup < file_path.dup ]_vars

\* C24 witness: two downloads of one batch had the same generated name; the
\* second one to finish wrote its file under the name with the suffix 1, and
\* the first one's file is still there.
C24_Witness ==
    /\ pc = "gather"
    /\ last.wrote # {}
    /\ last.result.file_path.dup = 1
    /\ [last.result.file_path EXCEPT !.dup = 0] \in contentFiles
    /\ Cardinality({ j \in DOMAIN handlers : handlers[j] = "returned" }) = 2

\* The distinct URLs that the run has to download
RemainingUrls == { remaining[k].url : k \in DOMAIN remaining }

\* The content files (not the text files of pages) written for a URL
FilesOfUrl(url) == { p \in contentFiles : p.hash = md5_8(url) /\ ~p.text }

\* C27: within one run of download_urls_data each distinct URL is requested over
\* HTTP at most once and at most one content file is written for it, also when
\* the URL stands in several rows of one batch; and every content file written
\* is the file_path of a record of progress.
C27_EachUrlFetchedOnce ==
    (pc \in {"batch", "gather", "save"} /\ faults = 0) =>
        /\ httpRequests <= Cardinality(RemainingUrls)
        /\ \A url \in RemainingUrls : Cardinality(FilesOfUrl(url)) <= 1
        /\ \A p \in contentFiles :
              ~p.text => \E id \in DOMAIN progress : progress[id].file_path = p

\* The rows of a list that come from the input row with the number seq
RowsFrom(rows, seq) == SelectSeq(rows, LAMBDA r : r.seq = seq)

\* C28: each record_results call of a task adds to the tracker, for the input row
\* the task is at and its m cleaned models, exactly max(1, m) rows, all of that
\* input row and no two for the same model index, the row had none before and
\* the rows recorded earlier stay;
\* and when main has finished the output CSV holds exactly the rows of the
\* tracker, among them at least one for every loaded input row.
C28_OutputHasMaxOneMRowsPerInput ==
    /\ [][\A a \in DOMAIN tasks :
              (tasks[a].pc = "record" /\ tasks'[a] # tasks[a]) =>
                  LET row == RowsOf(a)[tasks[a].pos]
                      m == Len(tasks[a].models)
                      new == RowsFrom(output_rows', row.seq)
                  IN  /\ RowsFrom(output_rows, row.seq) = <<>>
                      /\ Len(new) = (IF m >= 1 THEN m ELSE 1)
                      /\ Len(output_rows') = Len(output_rows) + Len(new)
                      /\ \A n \in DOMAIN new :
                            /\ new[n].Asset = row.Asset /\ new[n].line = row.line
                            /\ new[n].model_idx = n - 1
                            /\ new[n].Model = (IF m >= 1 THEN tasks[a].models[n] ELSE "")
                      /\ SubSeq(output_rows', 1, Len(output_rows)) = output_rows]_vars
    /\ [](mPc = "done" /\ load_rows # <<>> =>
            /\ outputFile.st = "written"
            /\ SameRows(outputFile.rows, output_rows)
            /\ \A k \in DOMAIN load_rows :
                  \E n \in DOMAIN outputFile.rows :
                      outputFile.rows[n].line = load_rows[k].line)

\* C28 witness: main has finished on a file with a row of two models and a row
\* of none; the output holds two rows of the first and one empty-Model row of
\* the second.
C28_Witness ==
    /\ mPc = "done"
    /\ \E j, k \in DOMAIN load_rows :
          /\ Len(RowsFrom(outputFile.rows, load_rows[j].seq)) = 2
          /\ RowsFrom(outputFile.rows, load_rows[k].seq)
                = << [Asset |-> load_rows[k].Asset, line |-> load_rows[k].line, Model |-> "",
                      seq |-> load_rows[k].seq, model_idx |-> 0] >>

(***************************************************************************)
(* Properties of integrate_next_100_with_timing.main (SpecIntegrate).      *)
(***************************************************************************)

\* The (Model, trimmed URL) pair of a row
PairOf(row) == <<row.Model, strip(row.URL)>>

\* C29: no row that main appends to all_urls_combined.csv has the (Model,
\* trimmed URL) pair of a row the file had before, and no two appended rows have
\* the same pair, also when rows of the file have an empty Model or URL.
C29_NoDuplicatePairAppended ==
    (fnPc = "returned" /\ fnOutput.st = "done") =>
        /\ \A n \in DOMAIN fnOutput.new_entries, k \in DOMAIN fnInput.all_urls :
              PairOf(fnOutput.new_entries[n]) # PairOf(fnInput.all_urls[k])
        /\ \A n, k \in DOMAIN fnOutput.new_entries :
              n # k => PairOf(fnOutput.new_entries[n]) # PairOf(fnOutput.new_entries[k])

\* C30: after main, for every model of the results CSV and every category the
\* count in the model's summary row is the number of rows of the saved
\* all_urls_combined.csv with that Model and Category, and Total_URLs is the sum
\* of the four counts.
C30_SummaryCountsMatchCsv ==
    (fnPc = "returned" /\ fnOutput.st = "done") =>
        \A k \in DOMAIN fnOutput.summary :
            LET row == fnOutput.summary[k]
                saved(cat) == CountRows(fnOutput.all_urls, row.Model, cat)
            IN  row.Model \in all_models_to_process(fnInput.results, fnOutput.new_entries) =>
                    /\ row.Technical_Manual_URLs = saved("Technical Manuals")
                    /\ row.Product_Manual_URLs = saved("Product Manuals")
                    /\ row.Troubleshooting_Resources_URLs = saved("Troubleshooting Resources")
                    /\ row.Failure_Cases_URLs = saved("Failure Cases")
                    /\ row.Total_URLs = row.Technical_Manual_URLs + row.Product_Manual_URLs
                                        + row.Troubleshooting_Resources_URLs
                                        + row.Failure_Cases_URLs

====
